---- MODULE Spec2Model ----
(***************************************************************************)
(* A model of the telegram bot's resilient API client                      *)
(* (src/src/services/apiClient.ts), of its write-behind sync queue         *)
(* (src/src/utils/sync.ts) with the session store it reconciles into       *)
(* (src/src/session.ts), and of its wizard handlers (src/src/index.ts).    *)
(***************************************************************************)
EXTENDS Integers, Sequences, FiniteSets, TLC

VARIABLES
    req,                \* the ApiClient.request call being followed (SpecRequest)
    config,             \* config.ts: whether apiBaseUrl is set
    registrationQueue,  \* sync.ts: registrationQueue
    profileQueue,       \* sync.ts: profileQueue
    sessions,           \* session.ts: SessionStore.store, one record per chat
    passes,             \* the drain passes (run() of startProfileSync) in flight
    ev,                 \* history: what the last handler did
    ops,                \* history: enqueue calls made so far
    wizard,             \* the Session of the conversation whose handlers are followed (SpecWizard)
    sessionStore        \* session.ts: the SessionStore and the clock it reads (SpecStore)

vars ==
    <<req, config, registrationQueue, profileQueue, sessions, passes, ev, ops, wizard,
      sessionStore>>

syncVars ==
    <<config, registrationQueue, profileQueue, sessions, passes, ev, ops, wizard,
      sessionStore>>

-----------------------------------------------------------------------------
(* Bounds of the model.                                                    *)

\* retryAttempts option values explored: -1 .. MaxRetry
MaxRetry == 3

\* enqueue calls per behaviour
MaxEnqueues == 2

\* the registration cursor up to which button presses are followed
MaxCursor == 9

\* the state retry counter up to which invalid answers are followed
MaxStateRetry == 1

\* the advances of the clock followed in a behaviour of the SessionStore
MaxTicks == 3

-----------------------------------------------------------------------------
(* Program constants of apiClient.ts.                                      *)

DEFAULT_RETRY_ATTEMPTS == 2

DEFAULT_RETRY_DELAY_MS == 500

NETWORK_ERROR_CODES ==
    { "ECONNREFUSED", "ECONNRESET", "ENOTFOUND", "EAI_AGAIN", "ETIMEDOUT",
      "EHOSTUNREACH", "ENETUNREACH", "EHOSTDOWN", "ECONNABORTED", "EPIPE",
      "ABORT_ERR", "UND_ERR_CONNECT", "UND_ERR_CONNECT_TIMEOUT",
      "UND_ERR_SOCKET", "UND_ERR_HEADERS_TIMEOUT" }

-----------------------------------------------------------------------------
(* Errors.  An error value is the chain <<error, error.cause, ...>>; each  *)
(* layer records what the classification functions read: the class         *)
(* (instanceof), .name, .code, .status, and whether .message satisfies     *)
(* messageLooksNetworkRelated.                                             *)

Layer(cls, name, status, code, msgNet) ==
    [class |-> cls, name |-> name, status |-> status, code |-> code, msgNet |-> msgNet]

\* new ApiError(message, status, code, cause)
ApiError(msgNet, status, code, cause) ==
    <<Layer("ApiError", "ApiError", status, code, msgNet)>> \o cause

\* What fetch() can reject with.
FetchErrors ==
    { <<Layer("DOMException", "AbortError", 0, "none", FALSE)>>,
      <<Layer("TypeError", "TypeError", 0, "none", TRUE),
        Layer("Error", "Error", 0, "ECONNREFUSED", FALSE)>>,
      <<Layer("TypeError", "TypeError", 0, "none", FALSE)>>,
      <<Layer("Error", "Error", 0, "ECONNRESET", FALSE)>>,
      <<Layer("Error", "Error", 0, "none", TRUE)>>,
      <<Layer("Error", "Error", 0, "none", FALSE),
        Layer("Error", "Error", 0, "ETIMEDOUT", FALSE)>>,
      <<Layer("Error", "Error", 0, "none", FALSE)>> }

\* a test that takes no error for an abort
isAbortErrorNever(e) == FALSE

isAbortError(e) ==
    /\ e # <<>>
    /\ e[1].name = "AbortError" \/ e[1].code = "ABORT_ERR"

hasNetworkCode(e) ==
    /\ e # <<>>
    /\ e[1].code \in NETWORK_ERROR_CODES

\* a variant that also retries every other 4xx
shouldRetryStatusAny4xx(status) ==
    status >= 400

shouldRetryStatus(status) ==
    status >= 500 \/ status = 429

RECURSIVE shouldRetryError(_)
shouldRetryError(e) ==
    IF e = <<>> THEN FALSE
    ELSE IF e[1].class = "ApiError"
         THEN e[1].code \in {"network_error", "timeout", "health_check_failed"}
    ELSE IF isAbortError(e) THEN TRUE
    ELSE IF e[1].class = "TypeError" THEN TRUE
    ELSE IF hasNetworkCode(e) THEN TRUE
    ELSE IF e[1].msgNet THEN TRUE
    ELSE shouldRetryError(Tail(e))

\* a variant that gives every failure the default code
normalizeFetchErrorUncoded(e, code) ==
    IF e # <<>> /\ e[1].class = "ApiError" THEN e
    ELSE IF isAbortError(e) THEN ApiError(TRUE, 504, "timeout", e)
    ELSE ApiError(TRUE, 503, "network_error", e)

\* normalizeFetchError(error, url, timeoutMs, code).  Its messages
\* "Request timed out" and "Network request failed" are network related.
normalizeFetchErrorWith(e, code) ==
    IF e # <<>> /\ e[1].class = "ApiError" THEN e
    ELSE IF isAbortError(e)
         THEN ApiError(TRUE, 504, IF code = "network_error" THEN "timeout" ELSE code, e)
    ELSE IF (e # <<>> /\ e[1].class = "TypeError") \/ hasNetworkCode(e) \/ shouldRetryError(e)
         THEN ApiError(TRUE, 503, code, e)
    ELSE ApiError(e # <<>> /\ e[1].msgNet, 500, code, e)

\* normalizeFetchError with the default code "network_error"
normalizeFetchError(e) == normalizeFetchErrorWith(e, "network_error")

isNetworkError(e) ==
    IF e = <<>> THEN FALSE
    ELSE \/ /\ e[1].class = "ApiError"
            /\ e[1].code \in {"network_error", "timeout", "health_check_failed"}
         \/ isAbortError(e)
         \/ e[1].class = "TypeError" /\ e[1].msgNet
         \/ hasNetworkCode(e)
         \/ /\ Len(e) > 1
            /\ \/ hasNetworkCode(Tail(e))
               \/ isAbortError(Tail(e))
               \/ e[2].msgNet
         \/ e[1].msgNet

\* a variant whose waits grow by the base delay
calculateRetryDelayLinear(baseDelay, attempt) ==
    baseDelay * (attempt + 1)

calculateRetryDelay(baseDelay, attempt) ==
    baseDelay * (2 ^ attempt)

-----------------------------------------------------------------------------
(* What one fetch attempt can end in.  reached: the request got to the     *)
(* backend (always so when a response came back).  msgNet of an answer     *)
(* that is not JSON: whether the message of JSON.parse's SyntaxError, which *)
(* newer runtimes build from the start of the text, looks network related. *)

HttpStatuses == {400, 409, 429, 503}

BackendCodes == {"none", "conflict"}

Outcomes ==
    [kind : {"http"}, status : {200}, body : {"json", "empty"},
     code : {"none"}, msgNet : {FALSE}, err : {<<>>}, reached : {TRUE}]
    \cup
    [kind : {"http"}, status : {200}, body : {"malformed"},
     code : {"none"}, msgNet : BOOLEAN, err : {<<>>}, reached : {TRUE}]
    \cup
    [kind : {"http"}, status : HttpStatuses, body : {"error"},
     code : BackendCodes, msgNet : BOOLEAN, err : {<<>>}, reached : {TRUE}]
    \cup
    [kind : {"throw"}, status : {0}, body : {"none"},
     code : {"none"}, msgNet : {FALSE}, err : FetchErrors, reached : BOOLEAN]

ResponseOk(status) == status >= 200 /\ status <= 299

-----------------------------------------------------------------------------
(* ApiClient.request as a state machine over its attempts.                 *)

NoResult == [kind |-> "pending", error |-> <<>>]

\* ApiUserResponse.token, a Session's jwt
ServerToken == "jwt-server"

\* the client has no token (this.token undefined)
NoToken == "none"

\* a variant that attaches the token whatever the auth option
finalHeadersAlways(auth, token) == token

\* finalHeaders["Authorization"] of a call ("none": the header is not set)
finalHeaders(auth, token) ==
    IF auth /\ token # NoToken THEN token ELSE "none"

\* The call before its loop: the first fetch is issued when 0 <= retryAttempts,
\* otherwise the loop body never runs and line 312 throws.
NewRequest(op, retryAttempts, retryDelayMs, auth, token) ==
    IF retryAttempts >= 0
    THEN [phase |-> "fetch", op |-> op, retryAttempts |-> retryAttempts,
          retryDelayMs |-> retryDelayMs, attempt |-> 0, fetches |-> 1,
          received |-> 0, waits |-> <<>>, trace |-> <<>>, result |-> NoResult,
          token |-> token, authorization |-> finalHeaders(auth, token),
          sent |-> <<finalHeaders(auth, token)>>]
    ELSE [phase |-> "done", op |-> op, retryAttempts |-> retryAttempts,
          retryDelayMs |-> retryDelayMs, attempt |-> 0, fetches |-> 0,
          received |-> 0, waits |-> <<>>, trace |-> <<>>,
          result |-> [kind |-> "throw", error |-> ApiError(FALSE, 500, "unknown_error", <<>>)],
          token |-> token, authorization |-> finalHeaders(auth, token), sent |-> <<>>]

\* wait, then continue: the next iteration issues the next fetch
Retry(r) ==
    [r EXCEPT !.waits = Append(@, calculateRetryDelay(r.retryDelayMs, r.attempt)),
              !.attempt = @ + 1,
              !.fetches = @ + 1,
              !.sent = Append(@, r.authorization)]

Throw(r, e) ==
    [r EXCEPT !.phase = "done", !.result = [kind |-> "throw", error |-> e]]

\* a variant that reports an answer that is not JSON as a network failure
InvalidResponseAsNetwork(o) ==
    ApiError(FALSE, 503, "network_error", <<Layer("SyntaxError", "SyntaxError", 0, "none", o.msgNet)>>)

\* new ApiError("Invalid server response", response.status || 500,
\* "invalid_response", error), error being JSON.parse's SyntaxError
InvalidResponse(o) ==
    ApiError(FALSE, o.status, "invalid_response",
             <<Layer("SyntaxError", "SyntaxError", 0, "none", o.msgNet)>>)

Return(r, body) ==
    [r EXCEPT !.phase = "done", !.result = [kind |-> body, error |-> <<>>]]

\* The failure taxonomy as the design states it, read off the outcome alone:
\* HTTP 429/5xx, an abort/timeout, a connection-level failure, or a cause that
\* is one of these.
TransientOutcome(o) ==
    IF o.kind = "http" THEN o.status = 429 \/ o.status >= 500
    ELSE \E i \in 1 .. Len(o.err) :
            \/ o.err[i].name = "AbortError"
            \/ o.err[i].class = "TypeError"
            \/ o.err[i].code # "none"
            \/ o.err[i].msgNet

\* history: what is remembered of an attempt's outcome
Observed(o) ==
    [kind |-> o.kind, status |-> o.status, code |-> o.code, body |-> o.body,
     transient |-> TransientOutcome(o),
     timeout |-> o.kind = "throw" /\ o.err[1].name = "AbortError"]

\* a variant whose loop runs one attempt too many
IsLastAttemptOffByOne(r) == r.attempt = r.retryAttempts + 1

IsLastAttempt(r) == r.attempt = r.retryAttempts

\* One iteration of the loop of request, given what the fetch ended in.
AttemptStep(r, o) ==
    LET isLastAttempt == IsLastAttempt(r)
        r1 == [r EXCEPT !.received = @ + (IF o.reached THEN 1 ELSE 0),
                        !.trace = Append(@, Observed(o))]
    IN  IF o.kind = "http"
        THEN IF ~ResponseOk(o.status)
             THEN IF ~isLastAttempt /\ shouldRetryStatus(o.status)
                  THEN Retry(r1)
                  ELSE Throw(r1, ApiError(o.msgNet, o.status, o.code, <<>>))
             ELSE IF o.body = "empty" THEN Return(r1, "empty")
             ELSE IF o.body = "json" THEN Return(r1, "json")
             ELSE Throw(r1, InvalidResponse(o))
        ELSE IF ~isLastAttempt /\ shouldRetryError(o.err)
             THEN Retry(r1)
             ELSE Throw(r1, normalizeFetchError(o.err))

IdleRequest ==
    [phase |-> "idle", op |-> "none", retryAttempts |-> 0, retryDelayMs |-> 0,
     attempt |-> 0, fetches |-> 0, received |-> 0, waits |-> <<>>,
     trace |-> <<>>, result |-> NoResult,
     token |-> NoToken, authorization |-> "none", sent |-> <<>>]

\* the methods of the client that are followed, each with its auth option
RequestOps == {"register", "login", "getProfileByTelegramId", "sendPhoneOtp", "updateProfile"}

AuthOption(op) == op \notin {"register", "login", "getProfileByTelegramId", "sendPhoneOtp"}

\* the tokens a client is made with: createApiClient(), createApiClient(session.jwt)
ClientTokens == {NoToken, ServerToken}

\* a call is made; one call of the client is followed to its end
RequestStart(op, n, token) ==
    /\ req.phase = "idle"
    /\ req' = NewRequest(op, n, DEFAULT_RETRY_DELAY_MS, AuthOption(op), token)
    /\ UNCHANGED syncVars

RequestAttempt(o) ==
    /\ req.phase = "fetch"
    /\ req' = AttemptStep(req, o)
    /\ UNCHANGED syncVars

-----------------------------------------------------------------------------
(* The two methods of the client that call fetch themselves: healthCheck   *)
(* and downloadTaxForm.                                                    *)

\* what a fetch of these methods can end in
DirectOutcomes ==
    [kind : {"http"}, status : {200, 204}, body : {"json"},
     code : {"none"}, msgNet : {FALSE}, err : {<<>>}, reached : {TRUE}]
    \cup
    [kind : {"http"}, status : {400, 401, 403, 404, 429, 500, 503}, body : {"error"},
     code : {"none"}, msgNet : BOOLEAN, err : {<<>>}, reached : {TRUE}]
    \cup
    [kind : {"throw"}, status : {0}, body : {"none"},
     code : {"none"}, msgNet : {FALSE}, err : FetchErrors, reached : BOOLEAN]

\* healthCheck: what it settles with for the outcome of its one fetch
healthCheck(o) ==
    IF o.kind = "http"
    THEN IF ~ResponseOk(o.status)
         THEN IF o.status = 404 \/ o.status = 401 \/ o.status = 403
              THEN [kind |-> "empty", error |-> <<>>]
              ELSE [kind |-> "throw",
                    error |-> normalizeFetchErrorWith(
                                 ApiError(o.msgNet, o.status, "health_check_failed", <<>>),
                                 "health_check_failed")]
         ELSE [kind |-> "empty", error |-> <<>>]
    ELSE [kind |-> "throw", error |-> normalizeFetchErrorWith(o.err, "health_check_failed")]

HealthCheck(o) ==
    /\ req.phase = "idle"
    /\ req' = [IdleRequest EXCEPT !.phase = "done", !.op = "healthCheck", !.fetches = 1,
                                  !.received = IF o.reached THEN 1 ELSE 0,
                                  !.sent = <<"none">>,
                                  !.trace = <<Observed(o)>>,
                                  !.result = healthCheck(o)]
    /\ UNCHANGED syncVars

\* downloadTaxForm before its loop; outcomes is history: what each fetch of
\* the call ended in
NewDownload(token) ==
    [phase |-> "fetch", op |-> "downloadTaxForm", retryAttempts |-> DEFAULT_RETRY_ATTEMPTS,
     retryDelayMs |-> DEFAULT_RETRY_DELAY_MS, attempt |-> 0, fetches |-> 1,
     received |-> 0, waits |-> <<>>, trace |-> <<>>, result |-> NoResult,
     token |-> token, authorization |-> (IF token # NoToken THEN token ELSE "none"),
     sent |-> <<IF token # NoToken THEN token ELSE "none">>, outcomes |-> <<>>]

\* a variant whose loop never takes an attempt for the last
IsLastDownloadAttemptNever(r) == FALSE

IsLastDownloadAttempt(r) == r.attempt = DEFAULT_RETRY_ATTEMPTS

\* One iteration of the loop of downloadTaxForm.  Its catch block has no
\* test for ApiError: the error thrown for an answer goes through
\* shouldRetryError and normalizeFetchError as well.
DownloadStep(r, o) ==
    LET isLastAttempt == IsLastDownloadAttempt(r)
        r1 == [r EXCEPT !.received = @ + (IF o.reached THEN 1 ELSE 0),
                        !.trace = Append(@, Observed(o)),
                        !.outcomes = Append(@, o)]
        Caught(e) == IF ~isLastAttempt /\ shouldRetryError(e)
                     THEN Retry(r1)
                     ELSE Throw(r1, normalizeFetchError(e))
    IN  IF r.attempt > DEFAULT_RETRY_ATTEMPTS   \* the loop is over (line 501)
        THEN Throw(r, ApiError(FALSE, 500, "unknown_error", <<>>))
        ELSE IF o.kind = "http"
        THEN IF ~ResponseOk(o.status)
             THEN IF ~isLastAttempt /\ shouldRetryStatus(o.status)
                  THEN Retry(r1)
                  ELSE Caught(ApiError(o.msgNet, o.status, "none", <<>>))
             ELSE Return(r1, "blob")
        ELSE Caught(o.err)

DownloadStart(token) ==
    /\ req.phase = "idle"
    /\ req' = NewDownload(token)
    /\ UNCHANGED syncVars

DownloadAttempt(o) ==
    /\ req.phase = "fetch"
    /\ req' = DownloadStep(req, o)
    /\ UNCHANGED syncVars

NextDirect ==
    \/ \E o \in DirectOutcomes : HealthCheck(o)
    \/ \E token \in ClientTokens : DownloadStart(token)
    \/ \E o \in DirectOutcomes : DownloadAttempt(o)

-----------------------------------------------------------------------------
(* The results request can end in, for the drain's calls (default options) *)

RECURSIVE RunRequest(_, _)
RunRequest(rs, k) ==
    IF k = 0 THEN rs
    ELSE RunRequest({r \in rs : r.phase = "done"}
                    \cup {AttemptStep(r, o) : r \in {x \in rs : x.phase = "fetch"}, o \in Outcomes},
                    k - 1)

RequestResults ==
    {r.result : r \in RunRequest({NewRequest("drain", DEFAULT_RETRY_ATTEMPTS, DEFAULT_RETRY_DELAY_MS,
                                                    TRUE, NoToken)},
                                 DEFAULT_RETRY_ATTEMPTS + 1)}

\* register(): setToken(result.token) on an empty (undefined) result throws a
\* TypeError "Cannot read properties of undefined".
RegisterResult(res) ==
    IF res.kind = "empty"
    THEN [kind |-> "throw", error |-> <<Layer("TypeError", "TypeError", 0, "none", FALSE)>>]
    ELSE res

-----------------------------------------------------------------------------
(* Payloads: the fields of a RegistrationPayload / Partial<UserProfile>    *)
(* that the model follows; Absent marks a key the object does not have.    *)

Chats == {1, 2}

Fields == {"email", "phone"}

Absent == "absent"

EmptyPayload == [f \in Fields |-> Absent]

Payload(email, phone) == [email |-> email, phone |-> phone]

\* the payloads the foreground hands to enqueueRegistration: a
\* RegistrationPayload has its email, its phone is optional (types.ts)
RegistrationInputs ==
    {Payload("a", "a"), Payload("b", Absent), Payload("a", "b")}

\* the patches the foreground hands to enqueueProfilePatch
PatchInputs ==
    {EmptyPayload, Payload("a", Absent), Payload("b", "b"), Payload(Absent, "a")}

Keys(p) == {f \in Fields : p[f] # Absent}

\* { ...payload }
ReplaceSpread(earlier, later) == later

\* a variant that spreads in the wrong order: { ...payload, ...existing.payload }
MergeSpreadEarlierWins(earlier, later) ==
    [f \in Fields |-> IF earlier[f] # Absent THEN earlier[f] ELSE later[f]]

\* { ...existing.payload, ...payload }
MergeSpread(earlier, later) ==
    [f \in Fields |-> IF later[f] # Absent THEN later[f] ELSE earlier[f]]

\* a variant whose predicate never matches
FindNothing(queue, chatId) == 0

\* queue.find((item) => item.chatId === chatId): its index, 0 when none
Find(queue, chatId) ==
    IF \E i \in 1 .. Len(queue) : queue[i].chatId = chatId
    THEN CHOOSE i \in 1 .. Len(queue) :
            /\ queue[i].chatId = chatId
            /\ \A j \in 1 .. (i - 1) : queue[j].chatId # chatId
    ELSE 0

\* queue.splice(index, 1), index counted from 1 here
Splice(queue, index) ==
    IF index >= 1 /\ index <= Len(queue)
    THEN SubSeq(queue, 1, index - 1) \o SubSeq(queue, index + 1, Len(queue))
    ELSE queue

-----------------------------------------------------------------------------
(* Sessions.                                                               *)

NoProfile == [origin |-> "none", language |-> "none"]

\* the user a successful register / updateProfile answers with
ServerUser == [origin |-> "server", language |-> "es"]


AbsentSession ==
    [present |-> FALSE, jwt |-> "none", mode |-> "idle", profile |-> NoProfile,
     language |-> "none", registration |-> FALSE, login |-> FALSE]

\* a session the wizard left logged in, with its profile loaded
LoggedInSession ==
    [present |-> TRUE, jwt |-> "jwt-login", mode |-> "idle",
     profile |-> [origin |-> "local", language |-> "en"],
     language |-> "en", registration |-> FALSE, login |-> FALSE]

\* a session in the registration wizard (handleStartCommand)
RegisteringSession ==
    [present |-> TRUE, jwt |-> "none", mode |-> "registration", profile |-> NoProfile,
     language |-> "en", registration |-> TRUE, login |-> FALSE]

-----------------------------------------------------------------------------
(* Drain passes.                                                           *)

PassIds == {1, 2}

IdlePass ==
    [pc |-> "idle", index |-> 0, chat |-> 0, sent |-> EmptyPayload, during |-> EmptyPayload]

Awaiting(pc, index, task) ==
    [pc |-> pc, index |-> index, chat |-> task.chatId, sent |-> task.payload,
     during |-> EmptyPayload]

\* tryFlushProfileQueue from index on, up to its next await: entries whose
\* session is missing or has no jwt are stepped over.
RECURSIVE FlushProfileFrom(_, _, _)
FlushProfileFrom(queue, store, index) ==
    IF index > Len(queue) THEN IdlePass
    ELSE IF ~store[queue[index].chatId].present \/ store[queue[index].chatId].jwt = "none"
         THEN FlushProfileFrom(queue, store, index + 1)
         ELSE Awaiting("updateProfile", index, queue[index])

\* tryFlushRegistrationQueue from index on, up to its next await; when its
\* loop is over run() goes on with tryFlushProfileQueue.
FlushRegistrationFrom(regQueue, profQueue, store, cfg, index) ==
    IF cfg /\ index <= Len(regQueue)
    THEN Awaiting("register", index, regQueue[index])
    ELSE IF cfg THEN FlushProfileFrom(profQueue, store, 1)
    ELSE IdlePass

-----------------------------------------------------------------------------
(* History: what the last handler did.                                     *)

Event(op, chatId, existed, outcome) ==
    [op |-> op, chat |-> chatId, existed |-> existed, outcome |-> outcome]

NoEvent == Event("none", 0, FALSE, "none")

\* the design's taxonomy of a failed call: transient when it is a network
\* failure, a timeout, or a 5xx/429 answer (after the client's retries)
TransientFailure(res) ==
    /\ res.kind = "throw"
    /\ res.error[1].class = "ApiError"
    /\ \/ res.error[1].status >= 500
       \/ res.error[1].status = 429
       \/ res.error[1].code \in {"network_error", "timeout"}

\* what the drain's catch blocks read of a result, and its place in the taxonomy
Shape(res) ==
    IF res.kind = "throw"
    THEN <<"throw", isNetworkError(res.error),
           res.error[1].class = "ApiError" /\ res.error[1].status = 409,
           TransientFailure(res)>>
    ELSE <<res.kind, FALSE, FALSE, FALSE>>

\* one result of every shape
DrainResults ==
    {res \in RequestResults :
        res = CHOOSE x \in RequestResults : Shape(x) = Shape(res)}

-----------------------------------------------------------------------------
(* The foreground: enqueue calls.                                          *)

\* edits arriving while a pass awaits updateProfile for the same chat
NoteDuring(ps, chatId, payload) ==
    [p \in PassIds |->
        IF ps[p].pc = "updateProfile" /\ ps[p].chat = chatId
        THEN [ps[p] EXCEPT !.during = MergeSpread(@, payload)]
        ELSE ps[p]]

enqueueRegistration(chatId, payload) ==
    LET existing == Find(registrationQueue, chatId)
    IN  /\ ops.enqueues < MaxEnqueues
        /\ registrationQueue' =
              IF existing # 0
              THEN [registrationQueue EXCEPT
                      ![existing].payload = ReplaceSpread(@, payload)]
              ELSE Append(registrationQueue, [chatId |-> chatId, payload |-> payload])
        /\ ev' = Event("enqueueRegistration", chatId, existing # 0, "none")
        /\ ops' = [ops EXCEPT !.enqueues = @ + 1]
        /\ UNCHANGED <<sessionStore, wizard, req, config, profileQueue, sessions, passes>>

enqueueProfilePatch(chatId, payload) ==
    LET existing == Find(profileQueue, chatId)
    IN  /\ ops.enqueues < MaxEnqueues
        /\ IF Keys(payload) = {}
           THEN UNCHANGED <<profileQueue, passes>>
           ELSE /\ profileQueue' =
                      IF existing # 0
                      THEN [profileQueue EXCEPT
                              ![existing].payload = MergeSpread(@, payload)]
                      ELSE Append(profileQueue, [chatId |-> chatId, payload |-> payload])
                /\ passes' = NoteDuring(passes, chatId, payload)
        /\ ev' = Event("enqueueProfilePatch", chatId, existing # 0, "none")
        /\ ops' = [ops EXCEPT !.enqueues = @ + 1]
        /\ UNCHANGED <<sessionStore, wizard, req, config, registrationQueue, sessions>>

-----------------------------------------------------------------------------
(* The timer: run() of startProfileSync, one action per stretch between    *)
(* awaits of a backend call.                                               *)

\* the interval fires (or the first run() is made): a new pass runs up to its
\* first await, whether or not an earlier pass is still awaiting
StartPass(p) ==
    /\ passes[p].pc = "idle"
    /\ \A q \in PassIds : q < p => passes[q].pc # "idle"
    /\ passes' = [passes EXCEPT ![p] =
                    FlushRegistrationFrom(registrationQueue, profileQueue, sessions, config, 1)]
    /\ ev' = Event("startPass", 0, FALSE, "none")
    /\ UNCHANGED <<sessionStore, wizard, req, config, registrationQueue, profileQueue, sessions, ops>>

\* the session patch of a registration flush that succeeded
RegistrationSuccessPatch(session, user) ==
    [session EXCEPT !.jwt = ServerToken,
                    !.profile = user,
                    !.language = user.language,
                    !.mode = IF session.mode = "registration" THEN "idle" ELSE @]

\* the session patch of a registration flush that met a 409
RegistrationConflictPatch(session) ==
    [session EXCEPT !.registration = FALSE, !.mode = "login", !.login = TRUE]

\* the catch block of tryFlushRegistrationQueue
RegistrationFlushOutcome(res) ==
    IF res.kind # "throw" THEN "flushed"
    ELSE IF isNetworkError(res.error) THEN "deferred"
    ELSE IF res.error[1].class = "ApiError" /\ res.error[1].status = 409 THEN "conflict"
    ELSE "failed"

\* await client.register(task.payload) settles; the loop goes on to its next await
RegisterSettles(p, res) ==
    LET pass == passes[p]
        index == pass.index
        outcome == RegistrationFlushOutcome(res)
        queue == IF outcome = "deferred" THEN registrationQueue
                 ELSE Splice(registrationQueue, index)
        store == IF ~sessions[pass.chat].present THEN sessions
                 ELSE IF outcome = "flushed"
                      THEN [sessions EXCEPT ![pass.chat] = RegistrationSuccessPatch(@, ServerUser)]
                 ELSE IF outcome = "conflict"
                      THEN [sessions EXCEPT ![pass.chat] = RegistrationConflictPatch(@)]
                 ELSE sessions
    IN  /\ pass.pc = "register"
        /\ registrationQueue' = queue
        /\ sessions' = store
        /\ passes' = [passes EXCEPT ![p] =
              FlushRegistrationFrom(queue, profileQueue, store, config,
                                    IF outcome = "deferred" THEN index + 1 ELSE index)]
        /\ ev' = Event("registerSettled", pass.chat, FALSE, outcome)
        /\ UNCHANGED <<sessionStore, wizard, req, config, profileQueue, ops>>

\* the try/catch of tryFlushProfileQueue
ProfileFlushOutcome(res) ==
    IF res.kind # "throw" THEN "flushed"
    ELSE IF isNetworkError(res.error) THEN "deferred"
    ELSE "failed"

\* await client.updateProfile(task.payload) settles; the loop goes on
UpdateProfileSettles(p, res) ==
    LET pass == passes[p]
        index == pass.index
        outcome == ProfileFlushOutcome(res)
        queue == IF outcome = "flushed" THEN Splice(profileQueue, index) ELSE profileQueue
        store == IF res.kind = "json" /\ sessions[pass.chat].present
                 THEN [sessions EXCEPT ![pass.chat].profile = ServerUser]
                 ELSE sessions
    IN  /\ pass.pc = "updateProfile"
        /\ profileQueue' = queue
        /\ sessions' = store
        /\ passes' = [passes EXCEPT ![p] =
              FlushProfileFrom(queue, store, IF outcome = "flushed" THEN index ELSE index + 1)]
        /\ ev' = Event("updateProfileSettled", pass.chat, FALSE, outcome)
        /\ UNCHANGED <<sessionStore, wizard, req, config, registrationQueue, ops>>

\* SessionStore.get after the TTL: the session is deleted and reported absent
Expire(chatId) ==
    /\ sessions[chatId].present
    /\ sessions' = [sessions EXCEPT ![chatId] = AbsentSession]
    /\ ev' = Event("expire", chatId, FALSE, "none")
    /\ UNCHANGED <<sessionStore, wizard, req, config, registrationQueue, profileQueue, passes, ops>>

-----------------------------------------------------------------------------
(* Message texts, as sequences of characters, and the validators of        *)
(* utils/validators.ts computed on them.                                   *)

Digits == {"0", "1", "2", "3", "4", "5", "6", "7", "8", "9"}

Whitespace == {" "}

\* the upper-case letters that occur in the model's texts
LowerOf ==
    [c \in {"A", "B", "C", "G", "N", "P", "T", "U", "S"} |->
        CASE c = "A" -> "a" [] c = "B" -> "b" [] c = "C" -> "c" [] c = "G" -> "g"
          [] c = "N" -> "n" [] c = "P" -> "p" [] c = "T" -> "t" [] c = "U" -> "u"
          [] c = "S" -> "s"]

Letters ==
    DOMAIN LowerOf \cup
    {"a", "b", "c", "e", "g", "i", "k", "l", "m", "n", "p", "r", "s", "t", "u", "v", "x", "y"}

\* the pictograph that starts a navigation label, as one character
Icon == "(icon)"

NAV_PREV == <<Icon, " ", "P", "r", "e", "v">>

NAV_NEXT == <<Icon, " ", "N", "e", "x", "t">>

NAV_CANCEL == <<Icon, " ", "C", "a", "n", "c", "e", "l">>

NAV_BACK == <<Icon, " ", "B", "a", "c", "k">>

\* String.prototype.trim
RECURSIVE trimStart(_)
trimStart(text) ==
    IF text # <<>> /\ text[1] \in Whitespace THEN trimStart(Tail(text)) ELSE text

RECURSIVE trimEnd(_)
trimEnd(text) ==
    IF text # <<>> /\ text[Len(text)] \in Whitespace
    THEN trimEnd(SubSeq(text, 1, Len(text) - 1))
    ELSE text

trim(text) == trimEnd(trimStart(text))

toLowerCase(text) ==
    [i \in 1 .. Len(text) |-> IF text[i] \in DOMAIN LowerOf THEN LowerOf[text[i]] ELSE text[i]]

\* text.replace(/[^\d]/g, "")
OnlyDigits(text) == SelectSeq(text, LAMBDA c : c \in Digits)

\* input.replace(/[^\d+]/g, "").replace(/^00/, "+")
normalizePhone(input) ==
    LET kept == SelectSeq(input, LAMBDA c : c \in Digits \cup {"+"})
    IN  IF Len(kept) >= 2 /\ kept[1] = "0" /\ kept[2] = "0"
        THEN <<"+">> \o SubSeq(kept, 3, Len(kept))
        ELSE kept

isValidPhone(phone) ==
    Len(OnlyDigits(phone)) >= 8 /\ Len(OnlyDigits(phone)) <= 20

\* one or more characters, none of them whitespace or "@"
LocalPart(text) ==
    text # <<>> /\ \A i \in 1 .. Len(text) : text[i] \notin Whitespace \cup {"@"}

\* a validator that accepts every text
isValidEmailAny(email) == TRUE

\* /^[^\s@]+@[^\s@]+\.[^\s@]+$/
isValidEmail(email) ==
    \E at \in 1 .. Len(email), dot \in 1 .. Len(email) :
        /\ at < dot
        /\ email[at] = "@"
        /\ email[dot] = "."
        /\ LocalPart(SubSeq(email, 1, at - 1))
        /\ LocalPart(SubSeq(email, at + 1, dot - 1))
        /\ LocalPart(SubSeq(email, dot + 1, Len(email)))

DigitValue(c) ==
    CASE c = "0" -> 0 [] c = "1" -> 1 [] c = "2" -> 2 [] c = "3" -> 3 [] c = "4" -> 4
      [] c = "5" -> 5 [] c = "6" -> 6 [] c = "7" -> 7 [] c = "8" -> 8 [] c = "9" -> 9

RECURSIVE Number(_)
Number(digits) ==
    IF digits = <<>> THEN 0
    ELSE 10 * Number(SubSeq(digits, 1, Len(digits) - 1)) + DigitValue(digits[Len(digits)])

DaysInMonth(year, month) ==
    IF month = 2
    THEN IF (year % 4 = 0 /\ year % 100 # 0) \/ year % 400 = 0 THEN 29 ELSE 28
    ELSE IF month \in {4, 6, 9, 11} THEN 30 ELSE 31

\* /^\d{4}-\d{2}-\d{2}$/, and the Date built from the text has the year, month
\* and day the text names
isValidDate(value) ==
    /\ Len(value) = 10
    /\ \A i \in {1, 2, 3, 4, 6, 7, 9, 10} : value[i] \in Digits
    /\ value[5] = "-" /\ value[8] = "-"
    /\ LET year == Number(SubSeq(value, 1, 4))
           month == Number(SubSeq(value, 6, 7))
           day == Number(SubSeq(value, 9, 10))
       IN  /\ month >= 1 /\ month <= 12
           /\ day >= 1 /\ day <= DaysInMonth(year, month)

\* The validator of a free-text state or region: two or more characters, all
\* of them letters or spaces.
isValidStateRegion(value) ==
    /\ Len(value) >= 2
    /\ \A i \in 1 .. Len(value) : value[i] \in Letters \cup Whitespace

\* The location catalogue: the countries offered, and for each the states
\* offered (none for a country whose state is typed in).
Germany == <<"G", "e", "r", "m", "a", "n", "y">>

UnitedStates == <<"U", "S", "A">>

Texas == <<"T", "e", "x", "a", "s">>

Utah == <<"U", "t", "a", "h">>

\* more entries, so that either list fills more than one page
OtherCountries ==
    << <<"C", "h", "a", "d">>, <<"C", "u", "b", "a">>, <<"F", "i", "j", "i">>, <<"I", "r", "a", "n">>,
       <<"I", "r", "a", "q">>, <<"M", "a", "l", "i">>, <<"P", "e", "r", "u">> >>

OtherStates ==
    << <<"O", "h", "i", "o">>, <<"I", "o", "w", "a">>, <<"G", "u", "a", "m">>, <<"M", "a", "i", "n", "e">>,
       <<"I", "d", "a", "h", "o">>, <<"H", "a", "w", "a", "i", "i">>, <<"A", "l", "a", "s", "k", "a">> >>

COUNTRIES == OtherCountries \o <<Germany, UnitedStates>>

STATES(country) ==
    IF country = UnitedStates THEN OtherStates \o <<Texas, Utah>> ELSE <<>>

\* list.find((item) => item.toLowerCase() === text.toLowerCase()): the
\* entry found, <<>> when none
FindIgnoringCase(list, text) ==
    IF \E i \in 1 .. Len(list) : toLowerCase(list[i]) = toLowerCase(text)
    THEN list[CHOOSE i \in 1 .. Len(list) :
                /\ toLowerCase(list[i]) = toLowerCase(text)
                /\ \A j \in 1 .. (i - 1) : toLowerCase(list[j]) # toLowerCase(text)]
    ELSE <<>>

\* the texts a user sends
BlankText == <<" ">>

EmailText == <<"A", "@", "b", ".", "c">>

DateText == <<"1", "9", "9", "0", "-", "0", "2", "-", "0", "3">>

GermanyText == <<"g", "e", "r", "m", "a", "n", "y">>

UsaText == <<"u", "s", "a">>

TexasText == <<"t", "e", "x", "a", "s">>

Texts ==
    { BlankText, EmailText, DateText, GermanyText, UsaText, TexasText,
      NAV_BACK, NAV_CANCEL, NAV_PREV, NAV_NEXT }

\* the texts a user sends where any text is taken (a name, a password, a
\* filing answer)
FreeTexts == {BlankText, TexasText}

\* the pagination directives
PageTexts == {NAV_PREV, NAV_NEXT}

\* the phone numbers of the contacts a user shares
ContactPhones ==
    { <<"+", "1", "9", "9", "0", "0", "2", "0", "3">>, <<"1", "2", "3">> }

-----------------------------------------------------------------------------
(* The wizards of index.ts.                                                *)

registrationSteps ==
    << [field |-> "phone", type |-> "phone"],
       [field |-> "fullName", type |-> "text"],
       [field |-> "email", type |-> "email"],
       [field |-> "dob", type |-> "date"],
       [field |-> "country", type |-> "country"],
       [field |-> "stateRegion", type |-> "state"],
       [field |-> "filingStatus", type |-> "select"],
       [field |-> "incomeType", type |-> "select"] >>

\* the registration fields whose values the model follows
RegistrationFields == {"phone", "email", "country", "stateRegion", "incomeType"}

\* a store that drops the value
RegistrationStoredNowhere(data, field, value) == data

\* registration.data[field] = value, for the fields the model follows
RegistrationStored(data, field, value) ==
    IF field \in RegistrationFields THEN [data EXCEPT ![field] = value] ELSE data

\* the option values the select prompts offer, among those of constants.ts
FILING_STATUSES == << <<"single">>, <<"widow">> >>

INCOME_TYPES == << <<"w2">>, <<"other">> >>

COUNTRY_PAGE_SIZE == 8

STATE_PAGE_SIZE == 8

\* a lookup that finds no step
findRegistrationStepIndexNone(field) == -1

\* registrationSteps.findIndex((step) => step.field === field), -1 when none
findRegistrationStepIndex(field) ==
    IF \E i \in 1 .. Len(registrationSteps) : registrationSteps[i].field = field
    THEN (CHOOSE i \in 1 .. Len(registrationSteps) : registrationSteps[i].field = field) - 1
    ELSE -1

filingSteps ==
    << [field |-> "w2Income", optional |-> FALSE],
       [field |-> "form1099Income", optional |-> FALSE],
       [field |-> "scheduleCDetails", optional |-> FALSE],
       [field |-> "deductions", optional |-> FALSE],
       [field |-> "dependents", optional |-> FALSE],
       [field |-> "educationCredits", optional |-> TRUE],
       [field |-> "medicalExpenses", optional |-> TRUE],
       [field |-> "mileage", optional |-> TRUE] >>

loginSteps ==
    << [field |-> "email", type |-> "email"],
       [field |-> "password", type |-> "password"] >>

\* a key the object does not have (or has as undefined)
NoValue == <<"(undefined)">>

NoPage == -1

Max(a, b) == IF a >= b THEN a ELSE b

Min(a, b) == IF a <= b THEN a ELSE b

\* Math.ceil(length / pageSize)
CeilDiv(length, pageSize) == (length + pageSize - 1) \div pageSize

\* a page cursor taken as it comes
clampPageNot(page, totalPages) == IF page = NoPage THEN 0 ELSE page

clampPage(page, totalPages) ==
    IF totalPages <= 1 THEN 0
    ELSE LET next == IF page = NoPage THEN 0 ELSE page
         IN  Min(Max(next, 0), totalPages - 1)

\* session.registration === undefined
NoRegistration ==
    [set |-> FALSE, stepIndex |-> 0, data |-> [f \in RegistrationFields |-> NoValue],
     phoneVerified |-> FALSE, stateRetryCount |-> 0]

\* { stepIndex: 0, data: { telegramId, language }, phoneVerified: false }
NewRegistration == [NoRegistration EXCEPT !.set = TRUE]

NoLogin == [set |-> FALSE, stepIndex |-> 0, email |-> NoValue, password |-> NoValue]

\* a login wizard state that begins on the password step
NewLoginAtPassword == [NoLogin EXCEPT !.set = TRUE, !.stepIndex = 1]

\* { stepIndex: 0 }
NewLogin == [NoLogin EXCEPT !.set = TRUE]

\* the filing fields whose values the model follows
FilingFields == {"w2Income", "educationCredits"}

NoFiling == [set |-> FALSE, stepIndex |-> 0, data |-> [f \in FilingFields |-> NoValue]]

\* The Session that SessionStore.create makes; of a Session the model follows
\* mode, jwt, profile, ui and the wizard states, and in pc the backend call
\* its handler is awaiting.
NewSession ==
    [mode |-> "idle", jwt |-> "none", profile |-> "none",
     registration |-> NoRegistration, login |-> NoLogin, filing |-> NoFiling,
     ui |-> [countryPage |-> NoPage, statePage |-> NoPage], pc |-> "idle"]

\* the wizard handlers are not followed
NoWizardSession == NewSession

WizardChat == 1

\* the step the cursor is on, or a step of type "none" when it is on none
\* (registrationSteps[stepIndex] is undefined)
StepAt(steps, stepIndex) ==
    IF stepIndex >= 0 /\ stepIndex < Len(steps) THEN steps[stepIndex + 1]
    ELSE [field |-> "none", type |-> "none", optional |-> FALSE]

\* enqueueProfilePatch(chatId, { country, stateRegion }) on a queue
EnqueuedLocationPatch(queue, chatId, country, stateRegion) ==
    LET payload == [country |-> country, stateRegion |-> stateRegion]
        existing == Find(queue, chatId)
    IN  IF existing # 0
        THEN [queue EXCEPT ![existing].payload =
                [f \in DOMAIN @ \cup DOMAIN payload |->
                    IF f \in DOMAIN payload THEN payload[f] ELSE @[f]]]
        ELSE Append(queue, [chatId |-> chatId, payload |-> payload])

\* promptRegistrationStep and finalizeRegistration up to the register call:
\* what they do to the Session
RECURSIVE promptRegistrationStep(_)
RECURSIVE finalizeRegistration(_)
promptRegistrationStep(s) ==
    LET registration == s.registration
        step == StepAt(registrationSteps, registration.stepIndex)
    IN  IF ~registration.set THEN s
        ELSE IF step.type = "none" THEN finalizeRegistration(s)
        ELSE IF step.type = "country"
             THEN [s EXCEPT !.ui.countryPage =
                      clampPage(@, Max(1, CeilDiv(Len(COUNTRIES), COUNTRY_PAGE_SIZE)))]
        ELSE IF step.type = "state"
             THEN IF registration.data.country = NoValue
                  THEN IF findRegistrationStepIndex("country") # -1
                       THEN promptRegistrationStep(
                               [s EXCEPT !.registration.stepIndex =
                                            findRegistrationStepIndex("country")])
                       ELSE s
                  ELSE IF Len(STATES(registration.data.country)) > 0
                       THEN [s EXCEPT !.ui.statePage =
                               clampPage(@, Max(1, CeilDiv(Len(STATES(registration.data.country)),
                                                           STATE_PAGE_SIZE)))]
                       ELSE [s EXCEPT !.registration.stateRetryCount = 0]
        ELSE s

\* a finalization that does not look at the phone
finalizeRegistrationUnverified(s) ==
    IF ~s.registration.set THEN s ELSE [s EXCEPT !.pc = "register"]

finalizeRegistration(s) ==
    LET registration == s.registration
    IN  IF ~registration.set THEN s
        ELSE IF (registration.data.phone \in {NoValue, <<>>} \/ ~registration.phoneVerified)
                /\ findRegistrationStepIndex("phone") # -1
             THEN promptRegistrationStep(
                     [s EXCEPT !.registration.stepIndex = findRegistrationStepIndex("phone")])
        ELSE [s EXCEPT !.pc = "register"]

\* finalizeRegistration from the answer of client.register on
finalizeRegistrationSettled(s, res) ==
    IF res.kind # "throw"
    THEN [s EXCEPT !.jwt = ServerToken, !.profile = "server",
                   !.registration = NoRegistration, !.mode = "idle", !.pc = "idle"]
    ELSE IF res.error[1].class = "ApiError" /\ res.error[1].status = 409
         THEN [s EXCEPT !.registration = NoRegistration, !.mode = "login",
                        !.login = NewLogin, !.pc = "idle"]
    ELSE IF isNetworkError(res.error)
         THEN promptRegistrationStep(
                 [s EXCEPT !.registration.stepIndex = Max(0, Len(registrationSteps) - 1),
                           !.pc = "idle"])
    ELSE [s EXCEPT !.pc = "idle"]

\* what a handler leaves behind: the Session and the profile queue
Left(s, queue) == [session |-> s, queue |-> queue]

cancelRegistrationFlow(s) ==
    [s EXCEPT !.mode = "idle", !.registration = NoRegistration,
              !.ui = [countryPage |-> NoPage, statePage |-> NoPage]]

\* a selection that is put in no queue
LocationQueuedNowhere(s, queue) ==
    Left([s EXCEPT !.profile = IF @ # "none" THEN "local" ELSE @], queue)

\* persistLocationSelection when the selection is queued
LocationQueued(s, queue) ==
    Left([s EXCEPT !.profile = IF @ # "none" THEN "local" ELSE @],
         EnqueuedLocationPatch(queue, WizardChat, s.registration.data.country,
                               s.registration.data.stateRegion))

\* what persistLocationSelection leaves behind, and what it returns
Persisted(s, queue, status) == [session |-> s, queue |-> queue, status |-> status]

\* persistLocationSelection up to its updateProfile call ("pending": it is
\* awaiting the call), for the country and state stored in the registration
persistLocationSelection(s, queue) ==
    IF s.jwt # "none" /\ config
    THEN Persisted([s EXCEPT !.pc = "updateProfile"], queue, "pending")
    ELSE LET left == LocationQueued(s, queue)
         IN  Persisted(left.session, left.queue, "queued")

\* persistLocationSelection from the answer of client.updateProfile on
persistLocationSelectionSettled(s, queue, res) ==
    IF res.kind # "throw"
    THEN Persisted([s EXCEPT !.profile = IF res.kind = "json" THEN "server" ELSE "none",
                             !.pc = "idle"], queue, "online")
    ELSE LET left == LocationQueued([s EXCEPT !.pc = "idle"], queue)
         IN  Persisted(left.session, left.queue, "queued")

\* a handleStateInput that drops the value it accepted
StateAcceptedDropped(s, queue, value) == Left(s, queue)

\* handleStateInput from an accepted value on: the value is stored, the
\* cursor advanced, and persistLocationSelection either awaits updateProfile
\* or queues the selection, after which the next step is prompted
StateAccepted(s, queue, value) ==
    LET stored == [s EXCEPT !.registration.data.stateRegion = value,
                            !.registration.stateRetryCount = 0,
                            !.registration.stepIndex = @ + 1]
        persisted == persistLocationSelection(stored, queue)
    IN  IF persisted.status = "pending"
        THEN Left(persisted.session, persisted.queue)
        ELSE Left(promptRegistrationStep(persisted.session), persisted.queue)

\* persistLocationSelection from the answer of client.updateProfile on, and
\* the rest of handleStateInput
LocationSettled(s, queue, res) ==
    LET left == persistLocationSelectionSettled(s, queue, res)
    IN  Left(promptRegistrationStep(left.session), left.queue)

handleCountryInput(s, rawText) ==
    LET text == trim(rawText)
        totalPages == Max(1, CeilDiv(Len(COUNTRIES), COUNTRY_PAGE_SIZE))
        page == IF s.ui.countryPage = NoPage THEN 0 ELSE s.ui.countryPage
        match == FindIgnoringCase(COUNTRIES, text)
    IN  IF text = <<>> THEN s
        ELSE IF text = NAV_CANCEL THEN cancelRegistrationFlow(s)
        ELSE IF text = NAV_BACK
             THEN promptRegistrationStep(
                     [s EXCEPT !.registration.stepIndex = Max(0, @ - 1)])
        ELSE IF text = NAV_PREV
             THEN promptRegistrationStep(
                     [s EXCEPT !.ui.countryPage = clampPage(page - 1, totalPages)])
        ELSE IF text = NAV_NEXT
             THEN promptRegistrationStep(
                     [s EXCEPT !.ui.countryPage = clampPage(page + 1, totalPages)])
        ELSE IF match = <<>> THEN s
        ELSE promptRegistrationStep(
                [s EXCEPT !.registration.data.country = match,
                          !.registration.data.stateRegion = NoValue,
                          !.registration.stateRetryCount = 0,
                          !.registration.stepIndex = @ + 1,
                          !.ui.statePage = 0])

handleStateInput(s, queue, rawText) ==
    LET text == trim(rawText)
        country == s.registration.data.country
        list == STATES(country)
        totalPages == Max(1, CeilDiv(Len(list), STATE_PAGE_SIZE))
        page == IF s.ui.statePage = NoPage THEN 0 ELSE s.ui.statePage
        match == FindIgnoringCase(list, text)
    IN  IF country = NoValue THEN Left(promptRegistrationStep(s), queue)
        ELSE IF text = <<>> THEN Left(s, queue)
        ELSE IF text = NAV_CANCEL THEN Left(cancelRegistrationFlow(s), queue)
        ELSE IF text = NAV_BACK
             THEN IF findRegistrationStepIndex("country") # -1
                  THEN Left(promptRegistrationStep(
                               [s EXCEPT !.registration.stepIndex =
                                            findRegistrationStepIndex("country")]), queue)
                  ELSE Left(s, queue)
        ELSE IF Len(list) > 0
             THEN IF text = NAV_PREV
                  THEN Left(promptRegistrationStep(
                               [s EXCEPT !.ui.statePage = clampPage(page - 1, totalPages)]), queue)
                  ELSE IF text = NAV_NEXT
                  THEN Left(promptRegistrationStep(
                               [s EXCEPT !.ui.statePage = clampPage(page + 1, totalPages)]), queue)
                  ELSE IF match = <<>> THEN Left(s, queue)
                  ELSE StateAccepted(s, queue, match)
        ELSE IF ~isValidStateRegion(text)
             THEN Left([s EXCEPT !.registration.stateRetryCount = @ + 1], queue)
        ELSE StateAccepted(s, queue, text)

handleRegistrationResponse(s, queue, rawText) ==
    LET registration == s.registration
        step == StepAt(registrationSteps, registration.stepIndex)
        text == trim(rawText)
        Stored(value) ==
            Left(promptRegistrationStep(
                    [s EXCEPT !.registration.data = RegistrationStored(@, step.field, value),
                              !.registration.stepIndex = @ + 1]), queue)
    IN  IF ~registration.set \/ rawText = <<>> \/ step.type = "none" THEN Left(s, queue)
        ELSE IF step.type = "phone"
             THEN IF text = <<>> \/ ~isValidPhone(normalizePhone(text)) THEN Left(s, queue)
                  ELSE Left(promptRegistrationStep(
                               [s EXCEPT !.registration.data.phone = normalizePhone(text),
                                         !.registration.phoneVerified = TRUE,
                                         !.registration.stepIndex = @ + 1]), queue)
        ELSE IF step.type = "country" THEN Left(handleCountryInput(s, text), queue)
        ELSE IF step.type = "state" THEN handleStateInput(s, queue, text)
        ELSE IF step.type = "text"
             THEN IF text = <<>> THEN Left(s, queue) ELSE Stored(text)
        ELSE IF step.type = "email"
             THEN IF ~isValidEmail(text) THEN Left(s, queue) ELSE Stored(toLowerCase(text))
        ELSE IF step.type = "date"
             THEN IF ~isValidDate(text) THEN Left(s, queue) ELSE Stored(text)
        ELSE Left(s, queue)

\* finalizeLogin up to the login call
finalizeLogin(s) ==
    IF ~s.login.set THEN s ELSE [s EXCEPT !.pc = "login"]

promptLoginStep(s) ==
    IF ~s.login.set THEN s
    ELSE IF StepAt(loginSteps, s.login.stepIndex).type = "none" THEN finalizeLogin(s)
    ELSE s

\* finalizeLogin from the answer of client.login on
finalizeLoginSettled(s, res) ==
    IF res.kind # "throw"
    THEN [s EXCEPT !.jwt = ServerToken, !.profile = "server", !.mode = "idle",
                   !.login = NoLogin, !.pc = "idle"]
    ELSE IF isNetworkError(res.error)
         THEN promptLoginStep([s EXCEPT !.login.stepIndex = Max(0, Len(loginSteps) - 1),
                                        !.pc = "idle"])
    ELSE promptLoginStep([s EXCEPT !.login = NewLogin, !.pc = "idle"])

handleLoginResponse(s, rawText) ==
    LET step == StepAt(loginSteps, s.login.stepIndex)
        text == trim(rawText)
    IN  IF ~s.login.set \/ rawText = <<>> \/ step.type = "none" THEN s
        ELSE IF step.type = "email"
             THEN IF ~isValidEmail(text) THEN s
                  ELSE promptLoginStep([s EXCEPT !.login.email = toLowerCase(text),
                                                 !.login.stepIndex = @ + 1])
        ELSE IF text = <<>> THEN s
        ELSE promptLoginStep([s EXCEPT !.login.password = text,
                                       !.login.stepIndex = @ + 1])

\* handleStartCommand from "session.mode = registration" on
BeginRegistration(s) ==
    [s EXCEPT !.mode = "registration", !.registration = NewRegistration, !.pc = "idle"]

\* handleStartCommand up to the lookup by telegram id
handleStartCommand(s) ==
    IF s.jwt = "none" THEN [s EXCEPT !.pc = "getProfileByTelegramId"]
    ELSE BeginRegistration(s)

\* handleStartCommand from the answer of getProfileByTelegramId on: a user
\* was found, or there is none (404) or the lookup failed
handleStartCommandSettled(s, res) ==
    IF res.kind = "json"
    THEN promptLoginStep([s EXCEPT !.mode = "login", !.login = NewLogin, !.pc = "idle"])
    ELSE BeginRegistration(s)

\* handleCallbackQuery, case LANG, up to its updateLanguage call
LanguageCallback(s) ==
    IF s.jwt # "none" THEN [s EXCEPT !.pc = "updateLanguage"]
    ELSE promptRegistrationStep(
            [s EXCEPT !.registration =
                         [(IF @.set THEN @ ELSE NewRegistration) EXCEPT
                             !.stepIndex = 0,
                             !.phoneVerified = FALSE,
                             !.data.phone = NoValue],
                      !.mode = "registration"])

\* handleCallbackQuery, case LANG, from the answer of updateLanguage on
LanguageCallbackSettled(s, res) ==
    IF res.kind # "throw"
    THEN [s EXCEPT !.profile = IF res.kind = "json" THEN "server" ELSE "none", !.pc = "idle"]
    ELSE [s EXCEPT !.pc = "idle"]

\* handleCallbackQuery, case REG, for the data REG:<field>:<value>
RegistrationCallback(s, field, value) ==
    IF ~s.registration.set THEN s
    ELSE promptRegistrationStep(
            [s EXCEPT !.registration.data = RegistrationStored(@, field, value),
                      !.registration.stepIndex = @ + 1])

\* the buttons the select prompts show: a field and a value of its options
RegistrationButtons ==
    {<<"filingStatus", FILING_STATUSES[i]>> : i \in 1 .. Len(FILING_STATUSES)}
    \cup {<<"incomeType", INCOME_TYPES[i]>> : i \in 1 .. Len(INCOME_TYPES)}

\* bot.on("contact"), for the contact's phone_number
handleContact(s, raw) ==
    IF s.mode # "registration" \/ ~s.registration.set
       \/ StepAt(registrationSteps, s.registration.stepIndex).type # "phone"
       \/ raw = <<>>
       \/ ~isValidPhone(normalizePhone(raw))
    THEN s
    ELSE promptRegistrationStep(
            [s EXCEPT !.registration.data.phone = normalizePhone(raw),
                      !.registration.phoneVerified = TRUE,
                      !.registration.stepIndex = @ + 1])

\* startFilingWizard up to its startOrResumeFiling call
startFilingWizard(s) ==
    IF s.jwt = "none" THEN s ELSE [s EXCEPT !.pc = "startOrResumeFiling"]

\* response.step when the response has none
NoStep == -1

\* startFilingWizard from the answer on; an answer without a body makes
\* response.filingId throw after session.mode has been assigned, and the
\* catch block reports it
startFilingWizardSettled(s, res, step, data) ==
    IF res.kind = "json"
    THEN [s EXCEPT !.mode = "filing",
                   !.filing = [set |-> TRUE,
                               stepIndex |-> IF step = NoStep THEN 0 ELSE step,
                               data |-> data],
                   !.pc = "idle"]
    ELSE IF res.kind = "empty"
         THEN [s EXCEPT !.mode = "filing", !.pc = "idle"]
    ELSE [s EXCEPT !.pc = "idle"]

\* filing.data[field] = value, for the fields the model follows
FilingStored(data, field, value) ==
    IF field \in FilingFields THEN [data EXCEPT ![field] = value] ELSE data

\* handleFilingResponse up to its saveFilingStep call
handleFilingResponse(s, rawText) ==
    LET step == StepAt(filingSteps, s.filing.stepIndex)
        text == trim(rawText)
        stored == [s EXCEPT !.filing.data = FilingStored(@, step.field, text)]
    IN  IF ~s.filing.set \/ rawText = <<>> \/ step.field = "none" \/ text = <<>> THEN s
        ELSE IF stored.jwt # "none" THEN [stored EXCEPT !.pc = "saveFilingStep"]
        ELSE [stored EXCEPT !.filing.stepIndex = @ + 1]

\* a handleFilingResponse that goes on to the next step whatever the answer
handleFilingResponseSettledAdvancing(s, res) ==
    [s EXCEPT !.filing.stepIndex = @ + 1, !.pc = "idle"]

\* handleFilingResponse from the answer of saveFilingStep on
handleFilingResponseSettled(s, res) ==
    IF res.kind # "throw"
    THEN [s EXCEPT !.filing.stepIndex = @ + 1, !.pc = "idle"]
    ELSE [s EXCEPT !.pc = "idle"]

\* handleCallbackQuery, case FILING, up to the submitFiling call of SUBMIT
FilingCallback(s, action, field) ==
    LET step == StepAt(filingSteps, s.filing.stepIndex)
    IN  IF ~s.filing.set THEN s
        ELSE IF action = "BACK"
             THEN IF s.filing.stepIndex > 0 THEN [s EXCEPT !.filing.stepIndex = @ - 1] ELSE s
        ELSE IF action = "CANCEL" THEN [s EXCEPT !.filing = NoFiling, !.mode = "idle"]
        ELSE IF action = "SKIP"
             THEN IF step.field # "none"
                  THEN [s EXCEPT !.filing.data = FilingStored(@, step.field, <<>>),
                                 !.filing.stepIndex = @ + 1]
                  ELSE s
        ELSE IF action = "EDIT"
             THEN IF \E i \in 1 .. Len(filingSteps) : filingSteps[i].field = field
                  THEN [s EXCEPT !.filing.stepIndex =
                           (CHOOSE i \in 1 .. Len(filingSteps) : filingSteps[i].field = field) - 1]
                  ELSE s
        ELSE IF action = "SUBMIT" /\ s.jwt # "none" THEN [s EXCEPT !.pc = "submitFiling"]
        ELSE s

\* submitFiling from the answer on
submitFilingSettled(s, res) ==
    IF res.kind # "throw"
    THEN [s EXCEPT !.filing = NoFiling, !.mode = "idle", !.pc = "idle"]
    ELSE [s EXCEPT !.pc = "idle"]

\* the buttons the filing prompts and the summary show
FilingButtons ==
    {<<"BACK", "none">>, <<"CANCEL", "none">>, <<"SKIP", "none">>, <<"SUBMIT", "none">>}
    \cup {<<"EDIT", filingSteps[i].field>> : i \in 1 .. Len(filingSteps)}

handleMessage(s, queue, text) ==
    IF text = <<>> THEN Left(s, queue)
    ELSE IF s.mode = "registration" THEN handleRegistrationResponse(s, queue, text)
    ELSE IF s.mode = "login" THEN Left(handleLoginResponse(s, text), queue)
    ELSE IF s.mode = "filing" THEN Left(handleFilingResponse(s, text), queue)
    ELSE Left(s, queue)

-----------------------------------------------------------------------------
(* The handlers as actions.  A handler runs up to the backend call it      *)
(* awaits (pc) and goes on when the call has settled; the handlers of one  *)
(* conversation are followed one at a time.                                *)

\* the design's taxonomy of a call's end
ResultClass(res) ==
    IF res.kind # "throw" THEN "success"
    ELSE IF res.error[1].class = "ApiError" /\ res.error[1].status = 409 THEN "conflict"
    ELSE IF TransientFailure(res) THEN "transient"
    ELSE "terminal"

\* what the design takes a text for, on the registration step the cursor is
\* on: an answer that is valid for the step, a navigation directive, or an
\* invalid answer
AnswerClass(s, text) ==
    LET type == StepAt(registrationSteps, s.registration.stepIndex).type
        country == s.registration.data.country
    IN  IF s.mode # "registration" \/ ~s.registration.set \/ type = "none" THEN "other"
        ELSE IF type = "phone"
             THEN IF text = DateText THEN "valid" ELSE "invalid"
        ELSE IF type = "text"
             THEN IF text # BlankText THEN "valid" ELSE "invalid"
        ELSE IF type = "email"
             THEN IF text = EmailText THEN "valid" ELSE "invalid"
        ELSE IF type = "date"
             THEN IF text = DateText THEN "valid" ELSE "invalid"
        ELSE IF type = "country"
             THEN IF text \in {GermanyText, UsaText} THEN "valid"
                  ELSE IF text \in {NAV_BACK, NAV_CANCEL, NAV_PREV, NAV_NEXT} THEN "directive"
                  ELSE "invalid"
        ELSE IF type = "state"
             THEN IF country = NoValue THEN "other"
                  ELSE IF text \in {NAV_BACK, NAV_CANCEL} THEN "directive"
                  ELSE IF country = UnitedStates
                       THEN IF text = TexasText THEN "valid"
                            ELSE IF text \in {NAV_PREV, NAV_NEXT} THEN "directive"
                            ELSE "invalid"
                  ELSE IF text \in {GermanyText, UsaText, TexasText} THEN "valid"
                  ELSE "invalid"
        ELSE "invalid"

\* the texts offered to the handler of the step the Session is on
OfferedTexts(s) ==
    IF \/ s.mode = "registration"
          /\ StepAt(registrationSteps, s.registration.stepIndex).type = "text"
       \/ s.mode = "login"
          /\ StepAt(loginSteps, s.login.stepIndex).type = "password"
       \/ s.mode = "filing"
    THEN FreeTexts
    ELSE Texts

\* history: the last handler that changed the Session, and what the design
\* takes its input for
Noted(before, after, op, class) ==
    IF after = before THEN ev ELSE Event(op, WizardChat, FALSE, class)

\* bot.on("message", handleMessage)
OnMessage(text) ==
    LET left == handleMessage(wizard, profileQueue, text)
    IN  /\ wizard.pc = "idle"
        /\ text \in OfferedTexts(wizard)
        /\ left.session.registration.stateRetryCount <= MaxStateRetry
        /\ wizard' = left.session
        /\ profileQueue' = left.queue
        /\ ev' = Noted(wizard, left.session, "message", AnswerClass(wizard, text))
        /\ UNCHANGED <<sessionStore, req, config, registrationQueue, sessions, passes, ops>>

\* bot.on("contact", ...)
OnContact(raw) ==
    /\ wizard.pc = "idle"
    /\ wizard' = handleContact(wizard, raw)
    /\ ev' = Noted(wizard, wizard', "contact", "none")
    /\ UNCHANGED <<sessionStore, req, config, registrationQueue, profileQueue, sessions, passes, ops>>

\* a button of the language picker is pressed
OnLanguageButton ==
    /\ wizard.pc = "idle"
    /\ wizard' = LanguageCallback(wizard)
    /\ ev' = Noted(wizard, wizard', "languageButton", "none")
    /\ UNCHANGED <<sessionStore, req, config, registrationQueue, profileQueue, sessions, passes, ops>>

UpdateLanguageReturns(res) ==
    /\ wizard.pc = "updateLanguage"
    /\ wizard' = LanguageCallbackSettled(wizard, res)
    /\ ev' = Event("updateLanguageReturned", WizardChat, FALSE, ResultClass(res))
    /\ UNCHANGED <<sessionStore, req, config, registrationQueue, profileQueue, sessions, passes, ops>>

\* a button of a select prompt is pressed, of the current prompt or of an
\* earlier one
OnRegistrationButton(field, value) ==
    /\ wizard.pc = "idle"
    /\ wizard.registration.stepIndex < MaxCursor
    /\ wizard' = RegistrationCallback(wizard, field, value)
    /\ ev' = Noted(wizard, wizard', "registrationButton",
                   IF StepAt(registrationSteps, wizard.registration.stepIndex).field = field
                   THEN "valid" ELSE "stale")
    /\ UNCHANGED <<sessionStore, req, config, registrationQueue, profileQueue, sessions, passes, ops>>

RegisterReturns(res) ==
    /\ wizard.pc = "register"
    /\ wizard' = finalizeRegistrationSettled(wizard, res)
    /\ ev' = Event("registerReturned", WizardChat, FALSE, ResultClass(res))
    /\ UNCHANGED <<sessionStore, req, config, registrationQueue, profileQueue, sessions, passes, ops>>

LoginReturns(res) ==
    /\ wizard.pc = "login"
    /\ wizard' = finalizeLoginSettled(wizard, res)
    /\ ev' = Event("loginReturned", WizardChat, FALSE, ResultClass(res))
    /\ UNCHANGED <<sessionStore, req, config, registrationQueue, profileQueue, sessions, passes, ops>>

UpdateProfileReturns(res) ==
    LET left == LocationSettled(wizard, profileQueue, res)
    IN  /\ wizard.pc = "updateProfile"
        /\ wizard' = left.session
        /\ profileQueue' = left.queue
        /\ ev' = Event("updateProfileReturned", WizardChat, FALSE, ResultClass(res))
        /\ UNCHANGED <<sessionStore, req, config, registrationQueue, sessions, passes, ops>>

\* the main menu's "start filing" button is pressed
OnStartFilingButton ==
    /\ wizard.pc = "idle"
    /\ wizard' = startFilingWizard(wizard)
    /\ ev' = Noted(wizard, wizard', "startFilingButton", "none")
    /\ UNCHANGED <<sessionStore, req, config, registrationQueue, profileQueue, sessions, passes, ops>>

\* the steps and the data a startOrResumeFiling answer names
ResumeSteps == {NoStep, 0, 5, Len(filingSteps), Len(filingSteps) + 1}

ResumeData ==
    { NoFiling.data, [NoFiling.data EXCEPT !["w2Income"] = TexasText] }

StartOrResumeFilingReturns(res, step, data) ==
    /\ wizard.pc = "startOrResumeFiling"
    /\ wizard' = startFilingWizardSettled(wizard, res, step, data)
    /\ ev' = Event("startOrResumeFilingReturned", WizardChat, FALSE, ResultClass(res))
    /\ UNCHANGED <<sessionStore, req, config, registrationQueue, profileQueue, sessions, passes, ops>>

\* a button of a filing prompt or of the filing summary is pressed
OnFilingButton(action, field) ==
    /\ wizard.pc = "idle"
    /\ wizard' = FilingCallback(wizard, action, field)
    /\ ev' = Noted(wizard, wizard', "filingButton", action)
    /\ UNCHANGED <<sessionStore, req, config, registrationQueue, profileQueue, sessions, passes, ops>>

SaveFilingStepReturns(res) ==
    /\ wizard.pc = "saveFilingStep"
    /\ wizard' = handleFilingResponseSettled(wizard, res)
    /\ ev' = Event("saveFilingStepReturned", WizardChat, FALSE, ResultClass(res))
    /\ UNCHANGED <<sessionStore, req, config, registrationQueue, profileQueue, sessions, passes, ops>>

SubmitFilingReturns(res) ==
    /\ wizard.pc = "submitFiling"
    /\ wizard' = submitFilingSettled(wizard, res)
    /\ ev' = Event("submitFilingReturned", WizardChat, FALSE, ResultClass(res))
    /\ UNCHANGED <<sessionStore, req, config, registrationQueue, profileQueue, sessions, passes, ops>>


-----------------------------------------------------------------------------
(* session.ts: the SessionStore with the clock it reads.  Of a Session the *)
(* model follows mode, jwt, registration and lastActivity; a key a partial *)
(* does not name is Absent, a key it sets to undefined has the value        *)
(* "none".                                                                 *)

\* 1000 * 60 * 60 * 12, twelve hours in milliseconds
SESSION_TTL_MS == 43200000

\* the keys of SessionData that are followed
SessionKeys == {"mode", "jwt", "registration"}

\* store.get(chatId) === undefined
NoStored == [present |-> FALSE, mode |-> "none", jwt |-> "none", registration |-> "none",
             lastActivity |-> 0]

\* the first reading of Date.now()
StartTime == 1

NoSessionStore == [store |-> [c \in {WizardChat} |-> NoStored], now |-> StartTime, ticks |-> 0]

\* a test that takes no session for expired
ExpiredNever(session, now) == FALSE

\* session.lastActivity && Date.now() - session.lastActivity > SESSION_TTL_MS
Expired(session, now) ==
    session.lastActivity # 0 /\ now - session.lastActivity > SESSION_TTL_MS

\* what a SessionStore method leaves: its return value and the store
Returned(result, store) == [result |-> result, store |-> store]

\* SessionStore.get
get(store, chatId, now) ==
    LET session == store[chatId]
    IN  IF ~session.present THEN Returned(NoStored, store)
        ELSE IF Expired(session, now)
             THEN Returned(NoStored, [store EXCEPT ![chatId] = NoStored])
        ELSE Returned(session, store)

\* SessionStore.create
create(store, chatId, now) ==
    LET session == [present |-> TRUE, mode |-> "idle", jwt |-> "none",
                    registration |-> "none", lastActivity |-> now]
    IN  Returned(session, [store EXCEPT ![chatId] = session])

\* an assign that takes the partial for the whole Session
AssignedWhole(session, update) ==
    [f \in DOMAIN session |->
        IF f \in SessionKeys
        THEN (IF update[f] # Absent THEN update[f] ELSE "none")
        ELSE session[f]]

\* Object.assign(session, update)
Assigned(session, update) ==
    [f \in DOMAIN session |->
        IF f \in SessionKeys /\ update[f] # Absent THEN update[f] ELSE session[f]]

\* SessionStore.update
update(store, chatId, partial, now) ==
    LET session == get(store, chatId, now)
    IN  IF ~session.result.present THEN session
        ELSE LET merged == [Assigned(session.result, partial) EXCEPT !.lastActivity = now]
             IN  Returned(merged, [session.store EXCEPT ![chatId] = merged])

\* the partials passed to update: each followed key not named, set to
\* undefined, or set to a value
Partials ==
    [mode : {Absent, "idle", "registration"},
     jwt : {Absent, "none", ServerToken},
     registration : {Absent, "none", "step 0"}]

\* the clock advances by a millisecond or by the TTL
Advances == {1, SESSION_TTL_MS}

Tick(d) ==
    /\ sessionStore.ticks < MaxTicks
    /\ sessionStore' = [sessionStore EXCEPT !.now = @ + d, !.ticks = @ + 1]
    /\ ev' = Event("tick", 0, FALSE, "none")
    /\ UNCHANGED <<wizard, req, config, registrationQueue, profileQueue, sessions, passes, ops>>

\* history: whether the store held a Session of the chat, and what the
\* method returned
Called(op, chatId, returned) ==
    Event(op, chatId, sessionStore.store[chatId].present,
          IF returned.result.present THEN "session" ELSE "undefined")

Get(chatId) ==
    LET returned == get(sessionStore.store, chatId, sessionStore.now)
    IN  /\ sessionStore' = [sessionStore EXCEPT !.store = returned.store]
        /\ ev' = Called("get", chatId, returned)
        /\ UNCHANGED <<wizard, req, config, registrationQueue, profileQueue, sessions, passes, ops>>

\* ensureSession: create when get reported no Session
Create(chatId) ==
    LET got == get(sessionStore.store, chatId, sessionStore.now)
        returned == create(got.store, chatId, sessionStore.now)
    IN  /\ ~got.result.present
        /\ sessionStore' = [sessionStore EXCEPT !.store = returned.store]
        /\ ev' = Called("create", chatId, returned)
        /\ UNCHANGED <<wizard, req, config, registrationQueue, profileQueue, sessions, passes, ops>>

Update(chatId, partial) ==
    LET returned == update(sessionStore.store, chatId, partial, sessionStore.now)
    IN  /\ sessionStore' = [sessionStore EXCEPT !.store = returned.store]
        /\ ev' = Called("update", chatId, returned)
        /\ UNCHANGED <<wizard, req, config, registrationQueue, profileQueue, sessions, passes, ops>>

-----------------------------------------------------------------------------

Init ==
    /\ req = IdleRequest
    /\ config \in BOOLEAN
    /\ registrationQueue = <<>>
    /\ profileQueue = <<>>
    /\ sessions = [c \in Chats |-> IF c = 1 THEN LoggedInSession ELSE RegisteringSession]
    /\ passes = [p \in PassIds |-> IdlePass]
    /\ ev = NoEvent
    /\ ops = [enqueues |-> 0]
    /\ wizard = NoWizardSession
    /\ sessionStore = NoSessionStore

Next ==
    \/ \E c \in Chats, payload \in RegistrationInputs : enqueueRegistration(c, payload)
    \/ \E c \in Chats, payload \in PatchInputs : enqueueProfilePatch(c, payload)
    \/ \E p \in PassIds : StartPass(p)
    \/ \E p \in PassIds, res \in DrainResults : RegisterSettles(p, RegisterResult(res))
    \/ \E p \in PassIds, res \in DrainResults : UpdateProfileSettles(p, res)
    \/ \E c \in Chats : Expire(c)

Spec == Init /\ [][Next]_vars

\* the results of calls that the backend answered: with the entity, or with
\* a 4xx other than 429
AnsweredResults ==
    {res \in DrainResults :
        \/ res.kind # "throw"
        \/ /\ res.error[1].class = "ApiError"
           /\ res.error[1].status \in 400 .. 499
           /\ res.error[1].status # 429}

InitAnswered ==
    /\ Init
    /\ config = TRUE

\* the queue with a backend that is configured and answers every call
NextAnswered ==
    \/ \E c \in Chats, payload \in RegistrationInputs : enqueueRegistration(c, payload)
    \/ \E c \in Chats, payload \in PatchInputs : enqueueProfilePatch(c, payload)
    \/ \E p \in PassIds : StartPass(p)
    \/ \E p \in PassIds, res \in AnsweredResults : RegisterSettles(p, RegisterResult(res))
    \/ \E p \in PassIds, res \in AnsweredResults : UpdateProfileSettles(p, res)
    \/ \E c \in Chats : Expire(c)

\* the interval keeps firing and every call of a pass settles
SpecAnswered ==
    /\ InitAnswered
    /\ [][NextAnswered]_vars
    /\ WF_vars(\E p \in PassIds : StartPass(p))
    /\ WF_vars(\E p \in PassIds, res \in AnsweredResults : RegisterSettles(p, RegisterResult(res)))
    /\ WF_vars(\E p \in PassIds, res \in AnsweredResults : UpdateProfileSettles(p, res))

InitRequest ==
    /\ req = IdleRequest
    /\ config = TRUE
    /\ registrationQueue = <<>>
    /\ profileQueue = <<>>
    /\ sessions = [c \in Chats |-> AbsentSession]
    /\ passes = [p \in PassIds |-> IdlePass]
    /\ ev = NoEvent
    /\ ops = [enqueues |-> 0]
    /\ wizard = NoWizardSession
    /\ sessionStore = NoSessionStore

NextRequest ==
    \/ \E op \in RequestOps, n \in -1 .. MaxRetry, token \in ClientTokens :
          RequestStart(op, n, token)
    \/ \E o \in Outcomes : RequestAttempt(o)

SpecRequest == InitRequest /\ [][NextRequest]_vars

SpecDirect == InitRequest /\ [][NextDirect]_vars

\* the Session of a user who has registered
RegisteredSession == [NewSession EXCEPT !.jwt = ServerToken, !.profile = "server"]

\* the Sessions that /start leaves: of a new conversation, whatever the lookup
\* by telegram id answered, and of a user who has registered
StartedSessions ==
    {handleStartCommandSettled(handleStartCommand(NewSession), RegisterResult(res)) :
        res \in DrainResults}
    \cup {handleStartCommand(RegisteredSession)}

\* the registration and login wizards of one conversation, after its /start
InitWizard ==
    /\ req = IdleRequest
    /\ config = TRUE
    /\ registrationQueue = <<>>
    /\ profileQueue = <<>>
    /\ sessions = [c \in Chats |-> AbsentSession]
    /\ passes = [p \in PassIds |-> IdlePass]
    /\ ev = NoEvent
    /\ ops = [enqueues |-> 0]
    /\ wizard \in StartedSessions
    /\ sessionStore = NoSessionStore

NextWizard ==
    \/ \E text \in Texts \ PageTexts : OnMessage(text)
    \/ \E raw \in ContactPhones : OnContact(raw)
    \/ OnLanguageButton
    \/ \E res \in DrainResults : UpdateLanguageReturns(res)
    \/ \E button \in RegistrationButtons : OnRegistrationButton(button[1], button[2])
    \/ \E res \in DrainResults : RegisterReturns(RegisterResult(res))
    \/ \E res \in DrainResults : LoginReturns(RegisterResult(res))
    \/ \E res \in DrainResults : UpdateProfileReturns(res)

SpecWizard == InitWizard /\ [][NextWizard]_vars

\* the paginated steps of the registration wizard: the texts of a conversation
\* after its /start, the pagination directives among them, up to the select
\* steps
NextPages ==
    \/ \E text \in Texts : OnMessage(text)
    \/ \E raw \in ContactPhones : OnContact(raw)
    \/ \E res \in DrainResults : UpdateProfileReturns(res)

\* as InitWizard, with or without an API base URL in the configuration
InitPages ==
    /\ req = IdleRequest
    /\ config \in BOOLEAN
    /\ registrationQueue = <<>>
    /\ profileQueue = <<>>
    /\ sessions = [c \in Chats |-> AbsentSession]
    /\ passes = [p \in PassIds |-> IdlePass]
    /\ ev = NoEvent
    /\ ops = [enqueues |-> 0]
    /\ wizard \in StartedSessions
    /\ sessionStore = NoSessionStore

SpecPages == InitPages /\ [][NextPages]_vars

\* the Sessions of a user who has registered: after a login, and after a
\* registration in this conversation, whose country and state prompts have
\* left their page cursors
RegisteredSessions ==
    {RegisteredSession,
     [RegisteredSession EXCEPT !.ui = [countryPage |-> 0, statePage |-> 0]]}

\* the filing wizard of one conversation, from the Session of a user who has
\* registered
InitFiling ==
    /\ req = IdleRequest
    /\ config = TRUE
    /\ registrationQueue = <<>>
    /\ profileQueue = <<>>
    /\ sessions = [c \in Chats |-> AbsentSession]
    /\ passes = [p \in PassIds |-> IdlePass]
    /\ ev = NoEvent
    /\ ops = [enqueues |-> 0]
    /\ wizard \in RegisteredSessions
    /\ sessionStore = NoSessionStore

NextFiling ==
    \/ \E text \in Texts : OnMessage(text)
    \/ OnStartFilingButton
    \/ \E res \in DrainResults, step \in ResumeSteps, data \in ResumeData :
          StartOrResumeFilingReturns(res, step, data)
    \/ \E button \in FilingButtons : OnFilingButton(button[1], button[2])
    \/ \E res \in DrainResults : SaveFilingStepReturns(res)
    \/ \E res \in DrainResults : SubmitFilingReturns(res)

SpecFiling == InitFiling /\ [][NextFiling]_vars

\* the SessionStore of one conversation and the clock
InitStore ==
    /\ req = IdleRequest
    /\ config = TRUE
    /\ registrationQueue = <<>>
    /\ profileQueue = <<>>
    /\ sessions = [c \in Chats |-> AbsentSession]
    /\ passes = [p \in PassIds |-> IdlePass]
    /\ ev = NoEvent
    /\ ops = [enqueues |-> 0]
    /\ wizard = NoWizardSession
    /\ sessionStore = NoSessionStore

NextStore ==
    \/ \E d \in Advances : Tick(d)
    \/ Get(WizardChat)
    \/ Create(WizardChat)
    \/ \E partial \in Partials : Update(WizardChat, partial)

SpecStore == InitStore /\ [][NextStore]_vars

-----------------------------------------------------------------------------
(* Properties.                                                             *)

\* a 4xx answer other than 429
TerminalAnswer(observed) ==
    /\ observed.kind = "http"
    /\ observed.status >= 400 /\ observed.status <= 499
    /\ observed.status # 429

\* the entries of a queue that belong to a chat
EntriesOf(queue, chatId) ==
    {i \in 1 .. Len(queue) : queue[i].chatId = chatId}

\* C1: a call with retryAttempts = N issues at most N + 1 fetches (3 with the
\* default N = 2), and exactly one when its first attempt ends in a 4xx answer
\* other than 429.
C1_AtMostRetryAttemptsPlusOne ==
    /\ req.phase # "idle" => req.fetches <= req.retryAttempts + 1
    /\ (req.phase # "idle" /\ req.retryAttempts = 2) => req.fetches <= 3
    /\ (Len(req.trace) >= 1 /\ TerminalAnswer(req.trace[1]))
          => req.fetches = 1 /\ req.phase = "done"

\* a default call that used all three of its attempts
C1_Witness ==
    /\ req.phase = "done"
    /\ req.retryAttempts = 2
    /\ req.fetches = 3
    /\ Len(req.trace) = 3

\* C2: an attempt is followed by another only if attempts remained and its
\* outcome was transient; a 4xx answer other than 429 ends the call at once,
\* as an error with the answer's status and the backend's code, with no wait
\* after it.
C2_RetryOnlyWhenTransient ==
    /\ \A i \in 1 .. Len(req.trace) :
          i < req.fetches => req.trace[i].transient /\ i <= req.retryAttempts
    /\ \A i \in 1 .. Len(req.trace) :
          TerminalAnswer(req.trace[i]) =>
             /\ req.phase = "done"
             /\ req.fetches = i
             /\ Len(req.trace) = i
             /\ Len(req.waits) = i - 1
             /\ req.result.kind = "throw"
             /\ req.result.error[1].class = "ApiError"
             /\ req.result.error[1].status = req.trace[i].status
             /\ req.result.error[1].code = req.trace[i].code

\* a transient first attempt, then a 4xx answer while an attempt remained
C2_Witness ==
    /\ req.phase = "done"
    /\ req.retryAttempts = 2
    /\ Len(req.trace) = 2
    /\ req.trace[1].transient
    /\ TerminalAnswer(req.trace[2])
    /\ req.trace[2].code = "conflict"

\* C3: the backend receives the POST of one register call at most once, also
\* when an attempt that reached it ends in a timeout or a 5xx.
C3_RegisterReceivedAtMostOnce ==
    req.op = "register" => req.received <= 1

\* C4: a profile patch enqueued for a chat that already has a pending patch
\* leaves exactly one entry for the chat, holding the later value of every
\* field the new patch has and the earlier value of every other field.
C4_ProfilePatchesMerge ==
    [][\A c \in Chats, payload \in PatchInputs :
          (/\ enqueueProfilePatch(c, payload)
           /\ Keys(payload) # {}
           /\ EntriesOf(profileQueue, c) # {})
          => /\ Cardinality(EntriesOf(profileQueue', c)) = 1
             /\ \A i \in EntriesOf(profileQueue, c), j \in EntriesOf(profileQueue', c),
                   f \in Fields :
                   profileQueue'[j].payload[f] =
                      IF payload[f] # Absent THEN payload[f]
                      ELSE profileQueue[i].payload[f]
             /\ Len(profileQueue') = Len(profileQueue)]_vars

\* a second patch met a pending one: email overwritten, phone kept
C4_Witness ==
    /\ ev.op = "enqueueProfilePatch"
    /\ ev.existed
    /\ \E i \in EntriesOf(profileQueue, ev.chat) :
          profileQueue[i].payload = Payload("a", "b")

C6_RegistrationsMerge ==
    [][\A c \in Chats, payload \in RegistrationInputs :
          (/\ enqueueRegistration(c, payload)
           /\ EntriesOf(registrationQueue, c) # {})
          => /\ Cardinality(EntriesOf(registrationQueue', c)) = 1
             /\ \A i \in EntriesOf(registrationQueue, c), j \in EntriesOf(registrationQueue', c),
                   f \in Fields :
                   registrationQueue'[j].payload[f] =
                      IF payload[f] # Absent THEN payload[f]
                      ELSE registrationQueue[i].payload[f]]_vars

\* C7: when a pass's updateProfile call settles, every field value enqueued
\* for that chat during the call was sent by the call or is still pending.
C7_EditsDuringDrainKept ==
    [][\A p \in PassIds, res \in DrainResults :
          UpdateProfileSettles(p, res)
          => \A f \in Fields :
                passes[p].during[f] # Absent
                => \/ passes[p].sent[f] = passes[p].during[f]
                   \/ \E i \in EntriesOf(profileQueue', passes[p].chat) :
                         profileQueue'[i].payload[f] = passes[p].during[f]]_vars

\* C8: no entry is in two calls at once, and a settling call removes no entry
\* but the one it was made for.
C8_NoOverlappingDrain ==
    [][/\ \A p, q \in PassIds :
             (p # q /\ passes'[p].pc # "idle" /\ passes'[p].pc = passes'[q].pc)
             => passes'[p].chat # passes'[q].chat
       /\ \A p \in PassIds, res \in DrainResults :
             /\ RegisterSettles(p, RegisterResult(res))
                => \A c \in Chats \ {passes[p].chat} :
                      EntriesOf(registrationQueue', c) = {} => EntriesOf(registrationQueue, c) = {}
             /\ UpdateProfileSettles(p, res)
                => \A c \in Chats \ {passes[p].chat} :
                      EntriesOf(profileQueue', c) = {} => EntriesOf(profileQueue, c) = {}]_vars

\* C9: when a drain call succeeds, the entry of its chat is no longer queued
\* and a present session has the server's profile; after a registration it
\* also has the returned token and has left registration mode.
C9_SuccessRemovesAndUpdates ==
    [][\A p \in PassIds, res \in DrainResults :
          /\ (RegisterSettles(p, RegisterResult(res)) /\ res.kind = "json")
             => /\ EntriesOf(registrationQueue', passes[p].chat) = {}
                /\ sessions[passes[p].chat].present
                   => /\ sessions'[passes[p].chat].profile = ServerUser
                      /\ sessions'[passes[p].chat].jwt = ServerToken
                      /\ sessions[passes[p].chat].mode = "registration"
                         => sessions'[passes[p].chat].mode = "idle"
          /\ (UpdateProfileSettles(p, res) /\ res.kind = "json")
             => /\ EntriesOf(profileQueue', passes[p].chat) = {}
                /\ sessions[passes[p].chat].present
                   => sessions'[passes[p].chat].profile = ServerUser]_vars

\* C10: when a drain call fails transiently (network, timeout, or a 5xx/429
\* that outlasted the retries), the queue keeps the entry as it was.
C10_TransientKeepsEntry ==
    [][\A p \in PassIds, res \in DrainResults :
          /\ (RegisterSettles(p, RegisterResult(res)) /\ TransientFailure(res))
             => registrationQueue' = registrationQueue
          /\ (UpdateProfileSettles(p, res) /\ TransientFailure(res))
             => profileQueue' = profileQueue]_vars

\* the design's taxonomy of a failed call: terminal when the backend rejected
\* it with a 4xx answer other than 429
TerminalFailure(res) ==
    /\ res.kind = "throw"
    /\ res.error[1].class = "ApiError"
    /\ res.error[1].status >= 400 /\ res.error[1].status <= 499
    /\ res.error[1].status # 429
    /\ res.error[1].code \notin {"network_error", "timeout"}

\* C11: when a drain call fails terminally, the entry of its chat is no longer
\* queued, in the registration queue and in the profile queue alike; a 409 on
\* a registration puts a present session into login mode without its
\* registration wizard state.
C11_TerminalRemovesEntry ==
    [][\A p \in PassIds, res \in DrainResults :
          /\ (RegisterSettles(p, RegisterResult(res)) /\ TerminalFailure(res))
             => /\ EntriesOf(registrationQueue', passes[p].chat) = {}
                /\ (res.error[1].status = 409 /\ sessions[passes[p].chat].present)
                   => /\ sessions'[passes[p].chat].mode = "login"
                      /\ sessions'[passes[p].chat].login
                      /\ ~sessions'[passes[p].chat].registration
          /\ (UpdateProfileSettles(p, res) /\ TerminalFailure(res))
             => EntriesOf(profileQueue', passes[p].chat) = {}]_vars

\* a session the profile loop can make a call for
Attemptable(store, chatId) ==
    store[chatId].present /\ store[chatId].jwt # "none"

\* the pass is in the loop over this queue and is attempting the chat's entry
\* or has it ahead of its cursor
RemainsToAttempt(pass, loop, queue, chatId) ==
    /\ pass.pc = loop
    /\ \/ pass.chat = chatId
       \/ \E i \in EntriesOf(queue, chatId) : i > pass.index

\* C12: when a call of a pass fails, the pass goes on: every other entry it
\* has not been through yet is the one it attempts next or stays ahead of its
\* cursor, and the profile entries are still gone through after a failed
\* registration.
C12_FailureDoesNotStopPass ==
    [][\A p \in PassIds, res \in DrainResults :
          /\ (RegisterSettles(p, RegisterResult(res)) /\ RegisterResult(res).kind = "throw")
             => /\ \A i \in 1 .. Len(registrationQueue) :
                      (i >= passes[p].index /\ registrationQueue[i].chatId # passes[p].chat)
                      => RemainsToAttempt(passes'[p], "register", registrationQueue',
                                          registrationQueue[i].chatId)
                /\ \A c \in Chats :
                      (EntriesOf(profileQueue, c) # {} /\ Attemptable(sessions', c))
                      => \/ passes'[p].pc = "register"
                         \/ RemainsToAttempt(passes'[p], "updateProfile", profileQueue', c)
          /\ (UpdateProfileSettles(p, res) /\ res.kind = "throw")
             => \A i \in 1 .. Len(profileQueue) :
                   (/\ i >= passes[p].index
                    /\ profileQueue[i].chatId # passes[p].chat
                    /\ Attemptable(sessions', profileQueue[i].chatId))
                   => RemainsToAttempt(passes'[p], "updateProfile", profileQueue',
                                       profileQueue[i].chatId)]_vars

\* C15: a call that ends in an error after using up its attempts on 5xx or
\* 429 answers ends in an error that isNetworkError takes for transient.
C15_ExhaustedRetriesAreTransient ==
    (/\ req.phase = "done"
     /\ req.result.kind = "throw"
     /\ req.fetches = req.retryAttempts + 1
     /\ req.fetches >= 1
     /\ Len(req.trace) = req.fetches
     /\ \A i \in 1 .. Len(req.trace) :
           /\ req.trace[i].kind = "http"
           /\ req.trace[i].status >= 500 \/ req.trace[i].status = 429)
    => isNetworkError(req.result.error)

-----------------------------------------------------------------------------
(* The wizards: finalization and the filing steps' saves.                  *)

\* the register call of finalizeRegistration has ended with this outcome
RegisterEnded(class) ==
    /\ wizard.pc = "register"
    /\ ev'.op = "registerReturned"
    /\ ev'.outcome = class

\* C13: when finalizing a registration fails transiently, the registration
\* payload is handed to the Sync Queue: the registration queue then holds a
\* pending create-registration entry of the conversation.
C13_TransientFinalizeIsQueued ==
    [][RegisterEnded("transient") => Find(registrationQueue', WizardChat) # 0]_vars

\* C14: when finalizing a registration fails transiently, the Session stays in
\* registration mode and keeps its registration wizard state with every
\* collected field unchanged and the cursor on the final step.
C14_TransientFinalizeKeepsWizard ==
    [][RegisterEnded("transient") =>
          /\ wizard'.mode = "registration"
          /\ wizard'.registration.set
          /\ wizard'.registration.data = wizard.registration.data
          /\ wizard'.registration.phoneVerified = wizard.registration.phoneVerified
          /\ wizard'.registration.stepIndex = Len(registrationSteps) - 1]_vars

\* C16: when the register call of a finalization is answered 409, the Session
\* goes to login mode with a login wizard state whose cursor is 0, its
\* registration wizard state is discarded, the registration is not tried
\* again and no entry is queued for it.
C16_ConflictRedirectsToLogin ==
    [][RegisterEnded("conflict") =>
          /\ wizard'.mode = "login"
          /\ wizard'.login.set
          /\ wizard'.login.stepIndex = 0
          /\ ~wizard'.registration.set
          /\ wizard'.pc = "idle"
          /\ registrationQueue' = registrationQueue
          /\ Find(registrationQueue', WizardChat) = 0]_vars

\* a finalization was answered 409 and the conversation is in the login wizard
C16_Witness ==
    /\ ev.op = "registerReturned"
    /\ ev.outcome = "conflict"
    /\ wizard.mode = "login"
    /\ wizard.login.stepIndex = 0

\* C17: when saving a filing step fails, terminally or transiently, the filing
\* cursor is unchanged and the Session stays in filing mode.
C17_FailedSaveKeepsFilingStep ==
    [][(/\ wizard.pc = "saveFilingStep"
        /\ ev'.op = "saveFilingStepReturned"
        /\ ev'.outcome \in {"transient", "terminal", "conflict"}) =>
          /\ wizard'.mode = "filing"
          /\ wizard'.filing.set
          /\ wizard'.filing.stepIndex = wizard.filing.stepIndex]_vars

\* the save of a filing step beyond the first failed transiently, and the
\* conversation is still on that step
C17_Witness ==
    /\ ev.op = "saveFilingStepReturned"
    /\ ev.outcome = "transient"
    /\ wizard.mode = "filing"
    /\ wizard.filing.stepIndex = 5
    /\ wizard.filing.data["educationCredits"] # NoValue

\* C18: the cursor of every wizard state is within [0, step count]: 0..8 for
\* registration, 0..2 for login, 0..8 for filing, whatever texts, contacts,
\* button presses (of earlier prompts too), finalize outcomes and filing
\* resume answers arrive.
C18_CursorsWithinSteps ==
    /\ wizard.registration.set =>
          wizard.registration.stepIndex \in 0 .. Len(registrationSteps)
    /\ wizard.login.set => wizard.login.stepIndex \in 0 .. Len(loginSteps)
    /\ wizard.filing.set => wizard.filing.stepIndex \in 0 .. Len(filingSteps)

-----------------------------------------------------------------------------
(* The wizards: valid and invalid answers.                                 *)

\* the Session is as a sequence of valid answers leaves it: every followed
\* field of a step before the cursor has its value, and the phone is verified
AnsweredSoFar(s) ==
    /\ s.mode = "registration" /\ s.registration.set /\ s.pc = "idle"
    /\ s.registration.stepIndex \in 0 .. Len(registrationSteps) - 1
    /\ s.registration.stepIndex > 0 => s.registration.phoneVerified
    /\ \A i \in 1 .. s.registration.stepIndex :
          registrationSteps[i].field \in RegistrationFields
             => s.registration.data[registrationSteps[i].field] # NoValue

\* the value the design stores for a valid text on the registration step the
\* cursor is on
ValueOf(s, text) ==
    LET type == StepAt(registrationSteps, s.registration.stepIndex).type
    IN  IF type = "phone" /\ text = DateText
        THEN <<"1", "9", "9", "0", "0", "2", "0", "3">>
        ELSE IF text = EmailText THEN <<"a", "@", "b", ".", "c">>
        ELSE IF type = "country" /\ text = GermanyText
             THEN <<"G", "e", "r", "m", "a", "n", "y">>
        ELSE IF type = "country" /\ text = UsaText THEN <<"U", "S", "A">>
        ELSE IF type = "state" /\ s.registration.data.country = <<"U", "S", "A">>
                /\ text = TexasText
             THEN <<"T", "e", "x", "a", "s">>
        ELSE text

\* after the handler the answer is stored under the field of the step the
\* cursor was on, and the cursor is one further and not beyond the steps
StoredAndAdvanced(after, value) ==
    LET field == StepAt(registrationSteps, wizard.registration.stepIndex).field
    IN  /\ after.registration.set
        /\ field \in RegistrationFields => after.registration.data[field] = value
        /\ after.registration.stepIndex = wizard.registration.stepIndex + 1
        /\ after.registration.stepIndex <= Len(registrationSteps)

\* C19: in a sequence of valid inputs to a wizard (texts, a shared contact,
\* the select buttons of the current prompt; the login wizard's email and
\* password), each input stores its value under the current step's field and
\* moves the cursor on by exactly one, never beyond the step count.
C19_ValidInputsAdvanceByOne ==
    /\ AnsweredSoFar(wizard) =>
          /\ \A text \in OfferedTexts(wizard) :
                AnswerClass(wizard, text) = "valid"
                   => StoredAndAdvanced(handleMessage(wizard, profileQueue, text).session,
                                        ValueOf(wizard, text))
          /\ wizard.registration.stepIndex = 0
                => StoredAndAdvanced(
                      handleContact(wizard, <<"+", "1", "9", "9", "0", "0", "2", "0", "3">>),
                      <<"+", "1", "9", "9", "0", "0", "2", "0", "3">>)
          /\ \A button \in RegistrationButtons :
                StepAt(registrationSteps, wizard.registration.stepIndex).field = button[1]
                   => StoredAndAdvanced(RegistrationCallback(wizard, button[1], button[2]),
                                        button[2])
    /\ (wizard.mode = "login" /\ wizard.login.set /\ wizard.pc = "idle") =>
          \A text \in OfferedTexts(wizard) :
             LET after == handleMessage(wizard, profileQueue, text).session
             IN  /\ (wizard.login.stepIndex = 0 /\ text = EmailText)
                       => /\ after.login.set
                          /\ after.login.email = <<"a", "@", "b", ".", "c">>
                          /\ after.login.stepIndex = 1
                 /\ (wizard.login.stepIndex = 1 /\ text = TexasText)
                       => /\ after.login.set
                          /\ after.login.password = text
                          /\ after.login.stepIndex = 2
                          /\ after.login.stepIndex <= Len(loginSteps)

\* every registration step was answered validly, the last by its button: the
\* cursor is at the step count and the registration is being finalized
C19_Witness ==
    /\ ev.op = "registrationButton"
    /\ ev.outcome = "valid"
    /\ wizard.pc = "register"
    /\ wizard.registration.stepIndex = Len(registrationSteps)
    /\ wizard.registration.phoneVerified
    /\ wizard.registration.data.phone = <<"1", "9", "9", "0", "0", "2", "0", "3">>
    /\ wizard.registration.data.email = <<"a", "@", "b", ".", "c">>
    /\ wizard.registration.data.country = <<"U", "S", "A">>
    /\ wizard.registration.data.stateRegion = <<"T", "e", "x", "a", "s">>
    /\ wizard.registration.data.incomeType = <<"w2">>

\* the registration wizard state apart from its diagnostic retry counter
WithoutRetryCounter(registration) == [registration EXCEPT !.stateRetryCount = 0]

\* C20: an invalid input (invalid phone, email or date, unknown country, a
\* state that is not in the enumerated list or fails the free-text validation,
\* empty text) leaves the cursor and the collected field values unchanged and
\* the same step current; only the diagnostic retry counter may change.
C20_InvalidInputsChangeNothing ==
    /\ (wizard.mode = "registration" /\ wizard.registration.set /\ wizard.pc = "idle") =>
          /\ \A text \in OfferedTexts(wizard) :
                AnswerClass(wizard, text) = "invalid" =>
                   LET left == handleMessage(wizard, profileQueue, text)
                   IN  /\ left.session.mode = "registration"
                       /\ WithoutRetryCounter(left.session.registration)
                             = WithoutRetryCounter(wizard.registration)
                       /\ left.session.pc = "idle"
                       /\ left.queue = profileQueue
          /\ LET after == handleContact(wizard, <<"1", "2", "3">>)
             IN  /\ after.mode = "registration"
                 /\ after.registration = wizard.registration
    /\ (wizard.mode = "login" /\ wizard.login.set /\ wizard.pc = "idle") =>
          \A text \in OfferedTexts(wizard) :
             (\/ wizard.login.stepIndex = 0 /\ text # EmailText
              \/ wizard.login.stepIndex = 1 /\ text = BlankText)
                => LET after == handleMessage(wizard, profileQueue, text).session
                   IN  after.mode = "login" /\ after.login = wizard.login

\* a text that fails the free-text validation was sent on the state step of a
\* country without enumerated states: only the retry counter has changed
C20_Witness ==
    /\ ev.op = "message"
    /\ ev.outcome = "invalid"
    /\ wizard.mode = "registration"
    /\ StepAt(registrationSteps, wizard.registration.stepIndex).type = "state"
    /\ wizard.registration.data.country = <<"G", "e", "r", "m", "a", "n", "y">>
    /\ wizard.registration.data.stateRegion = NoValue
    /\ wizard.registration.stateRetryCount = 1

-----------------------------------------------------------------------------
(* The registration wizard: select buttons, finalization, navigation.      *)

\* a registration wizard whose handlers can run: none is awaiting a call
RegistrationIdle ==
    wizard.mode = "registration" /\ wizard.registration.set /\ wizard.pc = "idle"

\* the values of an option list
OptionSet(options) == {options[i] : i \in 1 .. Len(options)}

\* C21: select steps are validated against the option catalog: a stored
\* incomeType is always one of its options, and a registration callback
\* stores into the field of the step the cursor is on; a callback that names
\* another field does not change the registration wizard state.
C21_CallbackMatchesCurrentStep ==
    wizard.registration.set =>
       /\ wizard.registration.data.incomeType \in {NoValue} \cup OptionSet(INCOME_TYPES)
       /\ wizard.pc = "idle" =>
             \A button \in RegistrationButtons :
                StepAt(registrationSteps, wizard.registration.stepIndex).field # button[1]
                   => RegistrationCallback(wizard, button[1], button[2]).registration
                         = wizard.registration

\* C22: the register call of a finalization is never issued while a collected
\* field is missing: when it is awaited the phone is verified and every
\* followed field of the eight steps has its value.
C22_FinalizeHasEveryField ==
    wizard.pc = "register" =>
       /\ wizard.registration.set
       /\ wizard.registration.phoneVerified
       /\ \A field \in RegistrationFields : wizard.registration.data[field] # NoValue

\* C23: 'back' on the country step puts the cursor at max(0, cursor - 1), on
\* the state step at the country step, both with the collected values
\* unchanged; and the state step is never current while no country is chosen.
C23_BackMovesOneStepOrToCountry ==
    RegistrationIdle =>
       LET cursor == wizard.registration.stepIndex
           type == StepAt(registrationSteps, cursor).type
           after == handleMessage(wizard, profileQueue, NAV_BACK).session
       IN  /\ type = "country" =>
                 /\ after.registration.stepIndex = (IF cursor - 1 > 0 THEN cursor - 1 ELSE 0)
                 /\ after.registration.data = wizard.registration.data
                 /\ after.mode = "registration"
           /\ type = "state" =>
                 /\ wizard.registration.data.country # NoValue
                 /\ StepAt(registrationSteps, after.registration.stepIndex).type = "country"
                 /\ after.registration.data = wizard.registration.data
                 /\ after.mode = "registration"

\* 'back' was sent on the state step: the country step is current again and
\* the chosen country is still stored
C23_Witness ==
    /\ ev.op = "message"
    /\ ev.outcome = "directive"
    /\ RegistrationIdle
    /\ StepAt(registrationSteps, wizard.registration.stepIndex).type = "country"
    /\ wizard.registration.data.country = <<"U", "S", "A">>

\* C24: 'cancel' in a wizard clears that wizard's state, sets the mode to idle
\* and resets the pagination cursors; token and profile are unchanged.  Here
\* for the filing wizard's Cancel button.
C24_CancelClearsWizard ==
    (wizard.filing.set /\ wizard.pc = "idle") =>
       LET after == FilingCallback(wizard, "CANCEL", "none")
       IN  /\ ~after.filing.set
           /\ after.mode = "idle"
           /\ after.ui = [countryPage |-> NoPage, statePage |-> NoPage]
           /\ after.jwt = wizard.jwt
           /\ after.profile = wizard.profile

\* C25: 'skip' takes effect only on an optional step: there it stores the
\* field as absent and moves the cursor on by one; on a step that is not
\* optional it changes neither the cursor nor the collected data.  Here for
\* the filing wizard's Skip button.
C25_SkipOnlyOptionalSteps ==
    (wizard.filing.set /\ wizard.pc = "idle") =>
       LET step == StepAt(filingSteps, wizard.filing.stepIndex)
           after == FilingCallback(wizard, "SKIP", "none")
       IN  IF step.optional
           THEN /\ after.filing.stepIndex = wizard.filing.stepIndex + 1
                /\ step.field \in FilingFields
                      => after.filing.data[step.field] \in {NoValue, <<>>}
           ELSE after.filing = wizard.filing

-----------------------------------------------------------------------------
(* The registration wizard: paginated steps.                               *)

\* the pages of a list: [0, totalPages - 1]
PagesOf(list, pageSize) ==
    0 .. (IF Len(list) = 0 THEN 0 ELSE (Len(list) - 1) \div pageSize)

\* C26: on a paginated step (country, or state of a country with a state
\* list) the step's page cursor is within [0, totalPages - 1], and a prev or
\* next directive leaves it there, moved by at most one page, with the wizard
\* cursor and the collected fields unchanged.
C26_PageCursorWithinPages ==
    RegistrationIdle =>
       LET type == StepAt(registrationSteps, wizard.registration.stepIndex).type
           country == wizard.registration.data.country
       IN  /\ type = "country" =>
                 /\ wizard.ui.countryPage \in PagesOf(COUNTRIES, COUNTRY_PAGE_SIZE)
                 /\ \A text \in PageTexts :
                       LET after == handleMessage(wizard, profileQueue, text).session
                       IN  /\ after.ui.countryPage \in PagesOf(COUNTRIES, COUNTRY_PAGE_SIZE)
                           /\ after.ui.countryPage - wizard.ui.countryPage
                                 \in (IF text = NAV_NEXT THEN {0, 1} ELSE {0, -1})
                           /\ after.registration = wizard.registration
                           /\ after.mode = "registration"
           /\ (type = "state" /\ country # NoValue /\ Len(STATES(country)) > 0) =>
                 /\ wizard.ui.statePage \in PagesOf(STATES(country), STATE_PAGE_SIZE)
                 /\ \A text \in PageTexts :
                       LET after == handleMessage(wizard, profileQueue, text).session
                       IN  /\ after.ui.statePage \in PagesOf(STATES(country), STATE_PAGE_SIZE)
                           /\ after.ui.statePage - wizard.ui.statePage
                                 \in (IF text = NAV_NEXT THEN {0, 1} ELSE {0, -1})
                           /\ after.registration = wizard.registration
                           /\ after.mode = "registration"

\* a next directive on the state step has turned to the list's second page
C26_Witness ==
    /\ ev.op = "message"
    /\ ev.outcome = "directive"
    /\ RegistrationIdle
    /\ StepAt(registrationSteps, wizard.registration.stepIndex).type = "state"
    /\ wizard.registration.data.country = <<"U", "S", "A">>
    /\ wizard.ui.statePage = 1

\* C27: on the state step of a country with a state list only a text that
\* matches an entry of the list is accepted, and the entry is what is stored;
\* for a country without a list the text is taken as free text, accepted only
\* when it passes the state-region validation, and prev/next are not taken
\* as pagination.
C27_StateListOrFreeText ==
    (/\ RegistrationIdle
     /\ StepAt(registrationSteps, wizard.registration.stepIndex).type = "state"
     /\ wizard.registration.data.country # NoValue) =>
       LET country == wizard.registration.data.country
           cursor == wizard.registration.stepIndex
       IN  \A text \in Texts :
              LET after == handleMessage(wizard, profileQueue, text).session
                  accepted == after.registration.set
                              /\ after.registration.stepIndex = cursor + 1
              IN  IF Len(STATES(country)) > 0
                  THEN /\ accepted <=> text = TexasText
                       /\ accepted =>
                             after.registration.data.stateRegion \in OptionSet(STATES(country))
                  ELSE /\ accepted <=> text \in {GermanyText, UsaText, TexasText}
                       /\ accepted => after.registration.data.stateRegion = text
                       /\ text \in PageTexts =>
                             /\ after.ui = wizard.ui
                             /\ after.registration.stateRetryCount
                                   = wizard.registration.stateRetryCount + 1

\* a free text was accepted as the state of a country without a state list
C27_Witness ==
    /\ ev.op = "message"
    /\ ev.outcome = "valid"
    /\ wizard.registration.set
    /\ wizard.registration.data.country = <<"G", "e", "r", "m", "a", "n", "y">>
    /\ wizard.registration.data.stateRegion = TexasText
    /\ StepAt(registrationSteps, wizard.registration.stepIndex).field = "filingStatus"

-----------------------------------------------------------------------------
(* The Session: its mode and its wizard states.                            *)

\* C28: in every Session at most the wizard state that matches the mode is
\* set: a change of mode clears the wizard states of the other modes.
C28_OnlyCurrentModeWizardSet ==
    /\ wizard.registration.set => wizard.mode = "registration"
    /\ wizard.login.set => wizard.mode = "login"
    /\ wizard.filing.set => wizard.mode = "filing"

-----------------------------------------------------------------------------
(* The SessionStore.                                                       *)

\* the stored Session of the conversation is older than the TTL
PastTTL ==
    /\ sessionStore.store[WizardChat].present
    /\ sessionStore.now - sessionStore.store[WizardChat].lastActivity > SESSION_TTL_MS

\* C29: a Session whose last activity is older than the 12 h TTL is reported
\* absent by the next get and removed from the store, and a create that
\* follows yields a Session in idle mode without token or wizard state.
C29_ExpiredSessionIsEvicted ==
    PastTTL =>
       LET got == get(sessionStore.store, WizardChat, sessionStore.now)
           made == create(got.store, WizardChat, sessionStore.now)
       IN  /\ ~got.result.present
           /\ ~got.store[WizardChat].present
           /\ made.result.present
           /\ made.result.mode = "idle"
           /\ made.result.jwt = "none"
           /\ made.result.registration = "none"
           /\ made.result.lastActivity = sessionStore.now
           /\ made.store[WizardChat] = made.result

\* get has found a Session in the store, reported none and removed it
C29_Witness ==
    /\ ev.op = "get"
    /\ ev.existed
    /\ ev.outcome = "undefined"
    /\ ~sessionStore.store[WizardChat].present

\* C30: update on a present Session that has not expired overwrites exactly
\* the keys the partial names, leaves the others unchanged and sets
\* lastActivity to the current time; on an absent or expired Session it
\* returns undefined and the store holds no Session afterwards.
C30_UpdateMergesPartial ==
    \A partial \in Partials :
       LET session == sessionStore.store[WizardChat]
           returned == update(sessionStore.store, WizardChat, partial, sessionStore.now)
       IN  IF session.present /\ ~PastTTL
           THEN /\ returned.result.present
                /\ returned.store[WizardChat] = returned.result
                /\ returned.result.lastActivity = sessionStore.now
                /\ \A key \in SessionKeys :
                      returned.result[key] =
                         (IF partial[key] # Absent THEN partial[key] ELSE session[key])
           ELSE /\ ~returned.result.present
                /\ ~returned.store[WizardChat].present

\* an update has merged into a Session created earlier: it has a token, is
\* in registration mode, and its last activity is the current time
C30_Witness ==
    /\ ev.op = "update"
    /\ ev.outcome = "session"
    /\ sessionStore.ticks > 0
    /\ sessionStore.store[WizardChat].jwt = ServerToken
    /\ sessionStore.store[WizardChat].mode = "registration"
    /\ sessionStore.store[WizardChat].registration = "none"
    /\ sessionStore.store[WizardChat].lastActivity = sessionStore.now

-----------------------------------------------------------------------------
(* The retry schedule and the outcomes of ApiClient.request.               *)

\* x doubled n times
RECURSIVE Doubled(_, _)
Doubled(x, n) == IF n = 0 THEN x ELSE Doubled(x + x, n - 1)

\* C31: the wait after failed attempt n (counted from 0) is the base delay
\* times 2^n, there is one wait before each retried attempt and none after
\* the last attempt of a call; with the base delay of 500 ms the waits are
\* 500, 1000, 2000 ms.
C31_WaitsDoublePerAttempt ==
    /\ \A i \in 1 .. Len(req.waits) :
          req.waits[i] = Doubled(req.retryDelayMs, i - 1)
    /\ req.phase = "fetch" => Len(req.waits) = Len(req.trace)
    /\ (req.phase = "done" /\ req.fetches > 0) => Len(req.waits) = Len(req.trace) - 1
    /\ req.phase # "idle" => Len(req.waits) = req.fetches - (IF req.fetches > 0 THEN 1 ELSE 0)
    /\ (req.retryDelayMs = 500 /\ Len(req.waits) >= 3) =>
          SubSeq(req.waits, 1, 3) = <<500, 1000, 2000>>

\* a call that was retried three times and has ended
C31_Witness ==
    /\ req.phase = "done"
    /\ req.retryDelayMs = 500
    /\ req.waits = <<500, 1000, 2000>>
    /\ Len(req.trace) = 4

\* the attempts of the call so far that ran into their deadline
TimedOut == {i \in 1 .. Len(req.trace) : req.trace[i].timeout}

\* C32: a deadline ends one attempt, not the call: after an attempt that timed
\* out the call issues the next attempt while attempts remain, and it returns
\* the answer of a later attempt that succeeds; when the last allowed attempt
\* times out the call fails as an ApiError with the code timeout.
C32_TimeoutEndsOneAttempt ==
    /\ \A i \in TimedOut :
          IF i <= req.retryAttempts
          THEN req.fetches > i
          ELSE /\ req.phase = "done"
               /\ req.fetches = i
               /\ req.result.kind = "throw"
               /\ req.result.error[1].class = "ApiError"
               /\ req.result.error[1].code = "timeout"
               /\ req.result.error[1].status = 504
    /\ LET n == Len(req.trace)
       IN  (n > 0 /\ req.trace[n].kind = "http" /\ req.trace[n].status = 200
              /\ req.trace[n].body \in {"json", "empty"})
             => req.phase = "done" /\ req.result.kind = req.trace[n].body

\* a call whose first two attempts timed out and whose third was answered
C32_Witness ==
    /\ req.phase = "done"
    /\ Len(req.trace) = 3
    /\ TimedOut = {1, 2}
    /\ req.result.kind = "json"

\* C33: a 2xx answer whose body is not JSON ends the call at that attempt, with
\* no wait after it and whatever attempts remain, as an ApiError with the code
\* invalid_response that the client does not take for retryable; a 2xx answer
\* with an empty body makes the call return the no-content result.
C33_MalformedBodyIsTerminal ==
    \A i \in 1 .. Len(req.trace) :
       (req.trace[i].kind = "http" /\ req.trace[i].status = 200) =>
          /\ req.phase = "done"
          /\ req.fetches = i
          /\ Len(req.trace) = i
          /\ Len(req.waits) = i - 1
          /\ req.trace[i].body = "malformed" =>
                /\ req.result.kind = "throw"
                /\ req.result.error[1].class = "ApiError"
                /\ req.result.error[1].code = "invalid_response"
                /\ req.result.error[1].status = 200
                /\ ~shouldRetryError(req.result.error)
          /\ req.trace[i].body = "empty" => req.result.kind = "empty"

\* a first answer that is not JSON, with three attempts left
C33_Witness ==
    /\ req.retryAttempts = 3
    /\ Len(req.trace) = 1
    /\ req.trace[1].body = "malformed"
    /\ req.result.kind = "throw"

\* the calls the design marks unauthenticated
Unauthenticated == {"register", "login", "getProfileByTelegramId", "sendPhoneOtp"}

\* C34: every attempt of a call carries the bearer token exactly when the call
\* requires auth and the client holds a token: an unauthenticated call
\* (register, login, lookup by telegram id, OTP) never carries it, also when a
\* token is set, and an authenticated call of a client without a token is
\* sent, without the header, and not failed beforehand.
C34_TokenOnAuthenticatedCalls ==
    req.phase # "idle" =>
       /\ Len(req.sent) = req.fetches
       /\ \A i \in 1 .. Len(req.sent) :
             req.sent[i] = (IF req.op \notin Unauthenticated /\ req.token # "none"
                            THEN req.token ELSE "none")
       /\ req.retryAttempts >= 0 => req.fetches >= 1

\* three attempts of an authenticated call, each with the token
C34_Witness ==
    /\ req.op = "updateProfile"
    /\ req.token = ServerToken
    /\ req.sent = <<ServerToken, ServerToken, ServerToken>>

-----------------------------------------------------------------------------
(* healthCheck and downloadTaxForm.                                        *)

\* C35: the liveness probe makes one attempt; it succeeds on every 2xx answer
\* and on 401, 403 and 404; on any other answer, a connection failure or a
\* timeout it fails as an ApiError with the code health_check_failed.
C35_HealthCheckOneAttempt ==
    req.op = "healthCheck" =>
       /\ req.phase = "done"
       /\ req.fetches = 1
       /\ req.waits = <<>>
       /\ Len(req.trace) = 1
       /\ LET answer == req.trace[1]
          IN  IF /\ answer.kind = "http"
                 /\ \/ answer.status \in 200 .. 299
                    \/ answer.status \in {401, 403, 404}
              THEN req.result.kind # "throw"
              ELSE /\ req.result.kind = "throw"
                   /\ req.result.error[1].class = "ApiError"
                   /\ req.result.error[1].code = "health_check_failed"

\* a probe that ran into its deadline
C35_Witness ==
    /\ req.op = "healthCheck"
    /\ req.trace[1].timeout
    /\ req.result.kind = "throw"
    /\ req.result.error[1].code = "health_check_failed"

\* request with its default options, given what its fetches end in
RECURSIVE RequestOn(_, _)
RequestOn(r, outcomes) ==
    IF outcomes = <<>> \/ r.phase # "fetch" THEN r
    ELSE RequestOn(AttemptStep(r, Head(outcomes)), Tail(outcomes))

\* C36: on every sequence of outcomes of its fetches (2xx, 429, 5xx, another
\* 4xx, a connection failure, a timeout) downloadTaxForm makes as many
\* attempts, waits as long before each, and ends as request with its default
\* options does: both go on, both succeed or both fail.
C36_DownloadRetriesAsRequest ==
    req.op = "downloadTaxForm" =>
       LET r == RequestOn(NewRequest("request", DEFAULT_RETRY_ATTEMPTS,
                                     DEFAULT_RETRY_DELAY_MS, TRUE, req.token),
                          req.outcomes)
       IN  /\ r.fetches = req.fetches
           /\ r.waits = req.waits
           /\ r.phase = req.phase
           /\ Len(r.trace) = Len(req.outcomes)
           /\ (r.result.kind = "throw") <=> (req.result.kind = "throw")
           /\ (r.result.kind = "pending") <=> (req.result.kind = "pending")

\* a download that was retried after a 503 answer and after a timeout and
\* then got the file
C36_Witness ==
    /\ req.op = "downloadTaxForm"
    /\ req.phase = "done"
    /\ req.waits = <<500, 1000>>
    /\ req.trace[1].status = 503
    /\ req.trace[2].timeout
    /\ req.result.kind = "blob"

-----------------------------------------------------------------------------
(* Liveness of the queue.                                                  *)

\* a chat has an entry in one of the queues
Pending(chatId) ==
    EntriesOf(registrationQueue, chatId) \cup EntriesOf(profileQueue, chatId) # {}

\* C37: with a backend that answers every call, and the drain timer firing
\* again and again, every chat that has a pending entry eventually has none:
\* no entry stays queued forever, whether its Session has expired or has no
\* token, or the backend rejects it.
C37_EveryEntryEventuallyRemoved ==
    \A c \in Chats : Pending(c) ~> ~Pending(c)

-----------------------------------------------------------------------------
(* The Session: a wizard mode and its wizard state.                        *)

\* C38: in every Session a wizard mode has its wizard state: in registration
\* mode registration is set, in login mode login is set, in filing mode filing
\* is set.
C38_WizardModeHasItsState ==
    /\ wizard.mode = "registration" => wizard.registration.set
    /\ wizard.mode = "login" => wizard.login.set
    /\ wizard.mode = "filing" => wizard.filing.set

-----------------------------------------------------------------------------
(* The phone of a registration.                                            *)

\* a phone value is stored in the registration and it is verified
PhoneReady(s) ==
    /\ s.registration.data.phone # NoValue
    /\ s.registration.data.phone # <<>>
    /\ s.registration.phoneVerified

\* C39: finalizeRegistration issues the register call only with a phone value
\* stored and phoneVerified true; otherwise it puts the cursor on the phone
\* step and calls nothing.  A language selection in a Session without a token
\* puts the registration cursor at 0, removes the stored phone and sets
\* phoneVerified to false, and keeps the other collected fields.
C39_RegisterNeedsVerifiedPhone ==
    /\ wizard.pc = "register" => PhoneReady(wizard)
    /\ (wizard.pc = "idle" /\ wizard.registration.set) =>
          LET after == finalizeRegistration(wizard)
          IN  IF PhoneReady(wizard)
              THEN after = [wizard EXCEPT !.pc = "register"]
              ELSE /\ after.pc = "idle"
                   /\ StepAt(registrationSteps, after.registration.stepIndex).field = "phone"
                   /\ after.registration.data = wizard.registration.data
                   /\ after.registration.phoneVerified = wizard.registration.phoneVerified
    /\ (wizard.pc = "idle" /\ wizard.jwt = "none") =>
          LET after == LanguageCallback(wizard)
          IN  /\ after.pc = "idle"
              /\ after.mode = "registration"
              /\ after.registration.set
              /\ after.registration.stepIndex = 0
              /\ after.registration.data.phone = NoValue
              /\ ~after.registration.phoneVerified
              /\ \A field \in RegistrationFields \ {"phone"} :
                    after.registration.data[field] = wizard.registration.data[field]

\* a language was selected after phone and email had been collected: the
\* cursor is back at 0, the phone is gone, the email is kept
C39_Witness ==
    /\ ev.op = "languageButton"
    /\ wizard.jwt = "none"
    /\ wizard.registration.set
    /\ wizard.registration.stepIndex = 0
    /\ wizard.registration.data.phone = NoValue
    /\ ~wizard.registration.phoneVerified
    /\ wizard.registration.data.email # NoValue

-----------------------------------------------------------------------------
(* The selection of a country and state.                                   *)

\* the queue holds one patch of the conversation, with the country and state
\* stored in the registration, and its other entries are those of before
OnePatchQueued(after, before, s) ==
    /\ Cardinality(EntriesOf(after, WizardChat)) = 1
    /\ Len(after) = Len(before) + (IF EntriesOf(before, WizardChat) = {} THEN 1 ELSE 0)
    /\ \A i \in EntriesOf(after, WizardChat) :
          /\ after[i].payload.country = s.registration.data.country
          /\ after[i].payload.stateRegion = s.registration.data.stateRegion
    /\ \A i \in 1 .. Len(before) : before[i].chatId # WizardChat => after[i] = before[i]

\* C40: a selection is persisted one way.  persistLocationSelection returns
\* online only when its updateProfile call succeeded, and then it enqueues
\* nothing; without a token, without an API base URL, and when the call
\* fails, transiently or terminally, it returns queued and the queue holds
\* one profile patch {country, stateRegion} of the conversation.
C40_SelectionOnlineOrQueued ==
    /\ (wizard.pc = "idle" /\ wizard.registration.set) =>
          LET out == persistLocationSelection(wizard, profileQueue)
          IN  IF wizard.jwt # "none" /\ config
              THEN /\ out.status = "pending"
                   /\ out.session.pc = "updateProfile"
                   /\ out.queue = profileQueue
              ELSE /\ out.status = "queued"
                   /\ out.session.pc = "idle"
                   /\ OnePatchQueued(out.queue, profileQueue, wizard)
    /\ wizard.pc = "updateProfile" =>
          \A res \in DrainResults :
             LET out == persistLocationSelectionSettled(wizard, profileQueue, res)
             IN  /\ out.session.pc = "idle"
                 /\ IF ResultClass(res) = "success"
                    THEN out.status = "online" /\ out.queue = profileQueue
                    ELSE out.status = "queued"
                         /\ OnePatchQueued(out.queue, profileQueue, wizard)

\* an updateProfile call of a selection has failed terminally and the
\* selection is in the queue
C40_Witness ==
    /\ ev.op = "updateProfileReturned"
    /\ ev.outcome = "terminal"
    /\ Len(profileQueue) = 1
    /\ profileQueue[1].chatId = WizardChat
    /\ profileQueue[1].payload.country = wizard.registration.data.country
    /\ profileQueue[1].payload.stateRegion = wizard.registration.data.stateRegion

====
